---- MODULE Spec2Model ----
(***************************************************************************)
(* ValutaTrade Hub: the portfolio ledger (Wallet), the rate resolver, the   *)
(* buy/sell/register/login use cases over the JSON data files, and the     *)
(* parser service that aggregates rates into the cache and its history.    *)
(*                                                                         *)
(* Numbers.  Python floats are modelled as exact rationals <<n, d>> in     *)
(* lowest terms with d > 0, plus the float NaN, written <<0, 0>>.  NaN     *)
(* compares false with everything (as in IEEE 754) and absorbs every       *)
(* arithmetic operation.  Rounding of float64 is not modelled.             *)
(***************************************************************************)
EXTENDS Integers, Sequences, FiniteSets, TLC

VARIABLES users, ports, session, rates, last, ntrades, portsTorn, wr, wallet, wlast, wops,
          refresh, history, clock, alast, nruns, ratesTorn, aw, rq,
          runners, sched, env

vars == <<users, ports, session, rates, last, ntrades, portsTorn, wr, wallet, wlast, wops,
          refresh, history, clock, alast, nruns, ratesTorn, aw, rq,
          runners, sched, env>>

(***************************************************************************)
(* Bounds of the model.                                                    *)
(***************************************************************************)
MaxTrades == 2
MaxWalletOps == 3
MaxRuns == 2

(***************************************************************************)
(* float arithmetic                                                        *)
(***************************************************************************)
RECURSIVE GCD(_, _)
GCD(a, b) == IF b = 0 THEN a ELSE GCD(b, a % b)

Abs(x) == IF x < 0 THEN -x ELSE x

NaN == <<0, 0>>

Rat(n, d) ==
    IF d = 0 THEN NaN
    ELSE LET g == GCD(Abs(n), Abs(d))
             s == IF d < 0 THEN -1 ELSE 1
         IN  <<(s * n) \div g, (s * d) \div g>>

Zero == Rat(0, 1)
One == Rat(1, 1)

IsNaN(x) == x[2] = 0

RAdd(x, y) == IF IsNaN(x) \/ IsNaN(y) THEN NaN
              ELSE Rat(x[1] * y[2] + y[1] * x[2], x[2] * y[2])

RSub(x, y) == IF IsNaN(x) \/ IsNaN(y) THEN NaN
              ELSE Rat(x[1] * y[2] - y[1] * x[2], x[2] * y[2])

RMul(x, y) == IF IsNaN(x) \/ IsNaN(y) THEN NaN
              ELSE Rat(x[1] * y[1], x[2] * y[2])

\* a reciprocal that returns its argument
RInv_same(x) == x

\* 1.0 / x ; every caller excludes x = 0.0 first
RInv(x) == IF IsNaN(x) THEN NaN ELSE Rat(x[2], x[1])

RLt(x, y) == ~IsNaN(x) /\ ~IsNaN(y) /\ x[1] * y[2] < y[1] * x[2]
RLe(x, y) == ~IsNaN(x) /\ ~IsNaN(y) /\ x[1] * y[2] <= y[1] * x[2]
RGt(x, y) == RLt(y, x)
RGe(x, y) == RLe(y, x)
REq(x, y) == ~IsNaN(x) /\ ~IsNaN(y) /\ x = y

(***************************************************************************)
(* exceptions                                                              *)
(***************************************************************************)
NoExc == [exc |-> "none"]
ValueError(m) == [exc |-> "ValueError", msg |-> m]
JSONDecodeError == [exc |-> "JSONDecodeError"]

ApiRequestError(m) == [exc |-> "ApiRequestError", msg |-> m]

\* ValueError whose message names the pair that has no rate
NoRateError(m, f, t) == [exc |-> "ValueError", msg |-> m, frm |-> f, to |-> t]

CurrencyNotFoundError(c) == [exc |-> "CurrencyNotFoundError", code |-> c]

InsufficientFundsError(av, req, c) ==
    [exc |-> "InsufficientFundsError", available |-> av, required |-> req, code |-> c]

(***************************************************************************)
(* currencies                                                              *)
(***************************************************************************)
Registry == {"USD", "EUR", "BTC", "ETH"}

\* code.strip().upper() on the inputs of the model
NormCode(s) ==
    CASE s = "btc" -> "BTC"
      [] s = " "   -> ""
      [] OTHER     -> s

\* get_currency: TRUE when the code is unknown to the registry
UnknownCurrency(c) == c \notin Registry

(***************************************************************************)
(* Wallet (models.py)                                                      *)
(***************************************************************************)
\* mutant: the check is a < 0, so that 0 is accepted
EnsurePositiveAmount_strict(amount) ==
    IF RLt(amount, Zero) THEN ValueError("amount_not_positive") ELSE NoExc

\* _ensure_positive_amount: the exception it raises, or NoExc
EnsurePositiveAmount(amount) ==
    IF RLe(amount, Zero) THEN ValueError("amount_not_positive") ELSE NoExc

\* Wallet.__init__ with the balance setter
WalletNew(code, balance) ==
    IF RLt(balance, Zero)
    THEN [exc |-> ValueError("negative_balance"), code |-> code, balance |-> Zero]
    ELSE [exc |-> NoExc, code |-> code, balance |-> balance]

\* mutant: the balance is set to the amount instead of increased by it
WalletDeposit_overwrite(w, amount) ==
    LET e == EnsurePositiveAmount(amount)
    IN  IF e # NoExc THEN [w EXCEPT !.exc = e]
        ELSE [w EXCEPT !.exc = NoExc, !.balance = amount]

WalletDeposit(w, amount) ==
    LET e == EnsurePositiveAmount(amount)
    IN  IF e # NoExc THEN [w EXCEPT !.exc = e]
        ELSE [w EXCEPT !.exc = NoExc, !.balance = RAdd(w.balance, amount)]

\* the error raised by withdraw when amount > balance: a ValueError whose message
\* shows the balance, the code and the amount
WithdrawShortError(w, amount) ==
    [exc |-> "ValueError", msg |-> "insufficient",
     shown_balance |-> w.balance, shown_code |-> w.code, shown_amount |-> amount]

WalletWithdraw(w, amount) ==
    LET e == EnsurePositiveAmount(amount)
    IN  IF e # NoExc THEN [w EXCEPT !.exc = e]
        ELSE IF RGt(amount, w.balance)
             THEN [w EXCEPT !.exc = WithdrawShortError(w, amount)]
             ELSE [w EXCEPT !.exc = NoExc, !.balance = RSub(w.balance, amount)]

(***************************************************************************)
(* data files                                                              *)
(***************************************************************************)
NoSession == [user_id |-> 0, username |-> ""]

\* dict with key k set to v
Put(f, k, v) == [x \in DOMAIN f \cup {k} |-> IF x = k THEN v ELSE f[x]]

EmptyWallets == [x \in {} |-> Zero]

\* wallets.get(code, {}).get("balance", 0.0)
Bal(wallets, code) == IF code \in DOMAIN wallets THEN wallets[code] ELSE Zero

RECURSIVE FirstIndex(_, _, _)
FirstIndex(pf, uid, i) ==
    IF i > Len(pf) THEN 0
    ELSE IF pf[i].user_id = uid THEN i ELSE FirstIndex(pf, uid, i + 1)

LoadUserPortfolio(pf, uid) ==
    LET i == FirstIndex(pf, uid, 1)
    IN  IF i = 0 THEN EmptyWallets ELSE pf[i].wallets

\* mutant: the file is rewritten with the entry of the user alone
SaveUserPortfolio_onlyUser(pf, uid, wallets) ==
    <<[user_id |-> uid, wallets |-> wallets]>>

SaveUserPortfolio(pf, uid, wallets) ==
    LET i == FirstIndex(pf, uid, 1)
    IN  IF i = 0 THEN Append(pf, [user_id |-> uid, wallets |-> wallets])
        ELSE [pf EXCEPT ![i].wallets = wallets]

(***************************************************************************)
(* rates                                                                   *)
(***************************************************************************)
\* the pair key f"{frm}_{to}"
Key(frm, to) == <<frm, to>>

\* _utc_iso_now: the text "YYYY-MM-DDTHH:MM:SS" of the UTC second t
Iso(t) == <<"iso", t>>

\* _load_rates_full: the pair entries of the rates file
LoadRatesFull(rf) == [k \in DOMAIN rf |-> [rate |-> rf[k].rate, updated_at |-> rf[k].updated_at]]

GetRatePair(frm0, to0, rf) ==
    LET frm == NormCode(frm0)
        to == NormCode(to0)
        full == LoadRatesFull(rf)
    IN  IF frm = "" \/ to = "" THEN [exc |-> ValueError("empty_code"), rate |-> Zero]
        ELSE IF frm = to THEN [exc |-> NoExc, rate |-> One]
        ELSE IF Key(frm, to) \in DOMAIN full
             THEN [exc |-> NoExc, rate |-> full[Key(frm, to)].rate]
        ELSE IF Key(to, frm) \in DOMAIN full /\ full[Key(to, frm)].rate # Zero
             THEN [exc |-> NoExc, rate |-> RInv(full[Key(to, frm)].rate)]
        ELSE [exc |-> NoRateError("rate_unavailable", frm, to), rate |-> Zero]

\* code.upper() on the inputs of the model (no strip)
Upper(s) == IF s = "btc" THEN "BTC" ELSE s

\* _load_rates_map: the flat mapping pair key -> rate of the rates file
LoadRatesMap(rf) == [k \in DOMAIN rf |-> rf[k].rate]

\* _get_rate without the code == base shortcut
GetRate_lookupOnly(code0, base0, flat) ==
    LET code == Upper(code0)
        base == Upper(base0)
    IN  IF Key(code, base) \in DOMAIN flat
        THEN [exc |-> NoExc, rate |-> flat[Key(code, base)]]
        ELSE [exc |-> NoRateError("no_rate_for_pair", code, base), rate |-> Zero]

\* _get_rate, the resolver of show_portfolio, over a flat mapping
GetRate(code0, base0, flat) ==
    LET code == Upper(code0)
        base == Upper(base0)
    IN  IF code = base THEN [exc |-> NoExc, rate |-> One]
        ELSE IF Key(code, base) \in DOMAIN flat
             THEN [exc |-> NoExc, rate |-> flat[Key(code, base)]]
        ELSE IF Key(base, code) \in DOMAIN flat /\ flat[Key(base, code)] # Zero
             THEN [exc |-> NoExc, rate |-> RInv(flat[Key(base, code)])]
        ELSE [exc |-> NoRateError("no_rate_for_pair", code, base), rate |-> Zero]

\* normalize_currency_code: the stripped upper-case code must be 2-5 letters or digits
BadCodeFormat(c) == c \in {"", "X"}

\* rate_from_flat inverting whatever the inverse entry holds
RateFromFlat_invertAny(frm0, to0, flat) ==
    LET f == NormCode(frm0)
        t == NormCode(to0)
    IN  IF BadCodeFormat(f) \/ BadCodeFormat(t)
        THEN [exc |-> ValueError("bad_code"), rate |-> Zero]
        ELSE IF f = t THEN [exc |-> NoExc, rate |-> One]
        ELSE IF Key(f, t) \in DOMAIN flat
             THEN [exc |-> NoExc, rate |-> flat[Key(f, t)]]
        ELSE IF Key(t, f) \in DOMAIN flat
             THEN [exc |-> NoExc, rate |-> RInv(flat[Key(t, f)])]
        ELSE [exc |-> NoRateError("no_rate_for_pair", f, t), rate |-> Zero]

\* rate_from_flat, the resolver of utils.py
RateFromFlat(frm0, to0, flat) ==
    LET f == NormCode(frm0)
        t == NormCode(to0)
    IN  IF BadCodeFormat(f) \/ BadCodeFormat(t)
        THEN [exc |-> ValueError("bad_code"), rate |-> Zero]
        ELSE IF f = t THEN [exc |-> NoExc, rate |-> One]
        ELSE IF Key(f, t) \in DOMAIN flat
             THEN [exc |-> NoExc, rate |-> flat[Key(f, t)]]
        ELSE IF Key(t, f) \in DOMAIN flat /\ flat[Key(t, f)] # Zero
             THEN [exc |-> NoExc, rate |-> RInv(flat[Key(t, f)])]
        ELSE [exc |-> NoRateError("no_rate_for_pair", f, t), rate |-> Zero]

(***************************************************************************)
(* use cases (usecases.py)                                                 *)
(***************************************************************************)
\* the result of a use case that raised before touching the portfolio
Failed(e) == [exc |-> e, saved |-> FALSE]

\* _pos_amount: the exception it raises, or NoExc
PosAmount(x) == IF RLe(x, Zero) THEN ValueError("amount_not_positive") ELSE NoExc

\* mutant: a balance equal to the cost is refused
BuyFundsShort_le(prev_usd, cost_usd) == RLe(prev_usd, cost_usd)

\* buy, the funds check: prev_usd < cost_usd
BuyFundsShort(prev_usd, cost_usd) == RLt(prev_usd, cost_usd)

\* sell, the funds check: prev_code < amt
SellFundsShort(prev_code, amt) == RLt(prev_code, amt)

\* mutant: the traded wallet is put into the dict and saved before the other
\* wallet's operation is known to have succeeded
TradeSave_early(e, wallets, code, code_balance, usd_balance) ==
    IF e = NoExc
    THEN [saved |-> TRUE, wallets |-> Put(Put(wallets, code, code_balance), "USD", usd_balance)]
    ELSE [saved |-> e.exc = "ValueError" /\ e.msg = "amount_not_positive",
          wallets |-> Put(wallets, code, code_balance)]

\* the end of buy and sell: both balances are put into the wallets dict (the
\* traded code first, USD second) and the dict is saved, once, and only when
\* nothing raised before
TradeSave(e, wallets, code, code_balance, usd_balance) ==
    IF e = NoExc
    THEN [saved |-> TRUE, wallets |-> Put(Put(wallets, code, code_balance), "USD", usd_balance)]
    ELSE [saved |-> FALSE, wallets |-> wallets]

\* the body of buy once the session, the code and the amount are validated
BuyTrade(uid, code, amt, pf, rf) ==
    LET wallets == LoadUserPortfolio(pf, uid)
        prev_code == Bal(wallets, code)
        prev_usd == Bal(wallets, "USD")
        rp == GetRatePair(code, "USD", rf)
        cost_usd == RMul(amt, rp.rate)
        w_code0 == WalletNew(code, prev_code)
        w_usd0 == WalletNew("USD", prev_usd)
        w_code == WalletDeposit(w_code0, amt)
        w_usd == WalletWithdraw(w_usd0, cost_usd)
        e == IF rp.exc # NoExc THEN ValueError("no_rate_to_usd")
             ELSE IF BuyFundsShort(prev_usd, cost_usd)
                  THEN InsufficientFundsError(prev_usd, cost_usd, "USD")
             ELSE IF w_code0.exc # NoExc THEN w_code0.exc
             ELSE IF w_usd0.exc # NoExc THEN w_usd0.exc
             ELSE IF w_code.exc # NoExc THEN w_code.exc
             ELSE w_usd.exc
        sv == TradeSave(e, wallets, code, w_code.balance, w_usd.balance)
    IN  [exc |-> e, saved |-> sv.saved, uid |-> uid, code |-> code, amt |-> amt,
         rated |-> rp.exc = NoExc, rate |-> rp.rate, prev_code |-> prev_code,
         prev_usd |-> prev_usd, before |-> wallets, wallets |-> sv.wallets]

BuyResult(sess, torn, pf, rf, currency, amount) ==
    LET code == NormCode(currency)
    IN  IF sess = NoSession THEN Failed(ValueError("login_first"))
        ELSE IF code = "" THEN Failed(ValueError("empty_code"))
        ELSE IF UnknownCurrency(code) THEN Failed(CurrencyNotFoundError(code))
        ELSE IF PosAmount(amount) # NoExc THEN Failed(PosAmount(amount))
        ELSE IF torn THEN Failed(JSONDecodeError)
        ELSE BuyTrade(sess.user_id, code, amount, pf, rf)

\* mutant: sell resolves the rate before it checks the balance, as buy does
SellTrade_rateFirst(uid, code, amt, pf, rf) ==
    LET wallets == LoadUserPortfolio(pf, uid)
        prev_code == Bal(wallets, code)
        prev_usd == Bal(wallets, "USD")
        rp == GetRatePair(code, "USD", rf)
        w_code == WalletWithdraw(WalletNew(code, prev_code), amt)
        w_usd == WalletDeposit(WalletNew("USD", prev_usd), RMul(amt, rp.rate))
        e == IF rp.exc # NoExc THEN ValueError("no_rate_to_usd")
             ELSE IF SellFundsShort(prev_code, amt)
                  THEN InsufficientFundsError(prev_code, amt, code)
             ELSE IF w_code.exc # NoExc THEN w_code.exc
             ELSE w_usd.exc
        sv == TradeSave(e, wallets, code, w_code.balance, w_usd.balance)
    IN  [exc |-> e, saved |-> sv.saved, uid |-> uid, code |-> code, amt |-> amt,
         rated |-> rp.exc = NoExc, rate |-> rp.rate, prev_code |-> prev_code,
         prev_usd |-> prev_usd, before |-> wallets, wallets |-> sv.wallets]

\* the body of sell once the session, the code and the amount are validated
SellTrade(uid, code, amt, pf, rf) ==
    LET wallets == LoadUserPortfolio(pf, uid)
        prev_code == Bal(wallets, code)
        prev_usd == Bal(wallets, "USD")
        rp == GetRatePair(code, "USD", rf)
        revenue_usd == RMul(amt, rp.rate)
        w_code0 == WalletNew(code, prev_code)
        w_usd0 == WalletNew("USD", prev_usd)
        w_code == WalletWithdraw(w_code0, amt)
        w_usd == WalletDeposit(w_usd0, revenue_usd)
        e == IF SellFundsShort(prev_code, amt)
             THEN InsufficientFundsError(prev_code, amt, code)
             ELSE IF rp.exc # NoExc THEN ValueError("no_rate_to_usd")
             ELSE IF w_code0.exc # NoExc THEN w_code0.exc
             ELSE IF w_usd0.exc # NoExc THEN w_usd0.exc
             ELSE IF w_code.exc # NoExc THEN w_code.exc
             ELSE w_usd.exc
        sv == TradeSave(e, wallets, code, w_code.balance, w_usd.balance)
    IN  [exc |-> e, saved |-> sv.saved, uid |-> uid, code |-> code, amt |-> amt,
         rated |-> rp.exc = NoExc, rate |-> rp.rate, prev_code |-> prev_code,
         prev_usd |-> prev_usd, before |-> wallets, wallets |-> sv.wallets]

\* mutant: the settlement currency is not refused
SellRestricted_never(code) == FALSE

\* sell refuses the settlement currency
SellRestricted(code) == code = "USD"

SellResult(sess, torn, pf, rf, currency, amount) ==
    LET code == NormCode(currency)
    IN  IF sess = NoSession THEN Failed(ValueError("login_first"))
        ELSE IF code = "" THEN Failed(ValueError("empty_code"))
        ELSE IF SellRestricted(code) THEN Failed(ValueError("sell_usd_not_supported"))
        ELSE IF UnknownCurrency(code) THEN Failed(CurrencyNotFoundError(code))
        ELSE IF PosAmount(amount) # NoExc THEN Failed(PosAmount(amount))
        ELSE IF torn THEN Failed(JSONDecodeError)
        ELSE SellTrade(sess.user_id, code, amount, pf, rf)

\* username.strip() on the inputs of the model
StripName(u) == IF u = " " THEN "" ELSE IF u = " alice " THEN "alice" ELSE u

\* len(password) < 4 on the inputs of the model
ShortPassword(p) == p \in {"", "abc"}

\* sha256(password + salt), taken to be collision free
HashPassword(p, salt) == <<p, salt>>

\* _generate_salt(username); the clock part is left out
GenerateSalt(u) == <<"salt", u>>

RECURSIVE FindUserFrom(_, _, _)
FindUserFrom(uf, u, i) ==
    IF i > Len(uf) THEN 0
    ELSE IF uf[i].username = u THEN i ELSE FindUserFrom(uf, u, i + 1)

\* _find_user_by_username: the index of the first record with that name, 0 for None
FindUserByUsername(uf, u) == FindUserFrom(uf, u, 1)

RECURSIVE MaxIdFrom(_, _, _)
MaxIdFrom(uf, i, m) ==
    IF i > Len(uf) THEN m
    ELSE MaxIdFrom(uf, i + 1, IF uf[i].user_id > m THEN uf[i].user_id ELSE m)

NextUserId(uf) == MaxIdFrom(uf, 1, 0) + 1

\* mutant: the username is not looked up
RegisterCheck_anyName(uf, username, password) ==
    IF StripName(username) = "" THEN ValueError("empty_username")
    ELSE IF ShortPassword(password) THEN ValueError("short_password")
    ELSE NoExc

\* register: the exception raised before anything is written, or NoExc
RegisterCheck(uf, username, password) ==
    IF StripName(username) = "" THEN ValueError("empty_username")
    ELSE IF ShortPassword(password) THEN ValueError("short_password")
    ELSE IF FindUserByUsername(uf, StripName(username)) # 0 THEN ValueError("username_taken")
    ELSE NoExc

NewUser(uf, username, password) ==
    LET u == StripName(username)
        salt == GenerateSalt(u)
    IN  [user_id |-> NextUserId(uf), username |-> u,
         hashed_password |-> HashPassword(password, salt), salt |-> salt]

\* login: the exception raised, or NoExc
LoginCheck(uf, username, password) ==
    LET u == StripName(username)
        i == FindUserByUsername(uf, u)
    IN  IF u = "" THEN ValueError("empty_username")
        ELSE IF password = "" THEN ValueError("empty_password")
        ELSE IF i = 0 THEN ValueError("user_not_found")
        ELSE IF HashPassword(password, uf[i].salt) # uf[i].hashed_password
             THEN ValueError("wrong_password")
        ELSE NoExc

(***************************************************************************)
(* inputs and initial files                                                *)
(***************************************************************************)
CodeInputs == {"USD", "BTC", "EUR", "btc", "XXX", " "}
AmountInputs == {Zero, One, Rat(2, 1), NaN}
NameInputs == {"alice", " "}
PasswordInputs == {"pass1", "abc", ""}

Quote(r) == [rate |-> r, updated_at |-> Iso(0)]

\* rate files the cache can hold (it is also writable from outside)
RateFiles ==
    { (Key("BTC", "USD") :> Quote(Rat(2, 1))) @@ (Key("USD", "EUR") :> Quote(Rat(1, 2))),
      (Key("BTC", "USD") :> Quote(Zero)) @@ (Key("USD", "EUR") :> Quote(Zero)),
      (Key("BTC", "USD") :> Quote(Rat(-1, 1))) }

Entry(uid, w) == [user_id |-> uid, wallets |-> w]

\* portfolio files the program can start from: empty, or populated from outside
\* with balances >= 0
PortfolioFiles ==
    { <<>>,
      <<Entry(1, "BTC" :> Rat(2, 1))>>,
      <<Entry(2, "EUR" :> Rat(2, 1)), Entry(1, ("USD" :> Rat(4, 1)) @@ ("BTC" :> One))>> }

NoWrite == [active |-> FALSE, data |-> <<>>]

\* rates.json without the refresh keys, as a file not written by the updater
NoRefresh == [source |-> "", last_refresh |-> "", last_refresh_epoch |-> 0]

\* no thread is inside run_update
NoRunners == [p \in {"scheduler", "cli"} |-> [pc |-> "idle"]]

\* the loop of run_scheduler has not been entered
NoScheduler == [pc |-> "off"]

\* RATES_TTL_SECONDS of the settings, and the offset of local time from UTC
DefaultEnv == [ttl |-> 300, tz |-> 0]

\* the parser service has not run: no history file, no write in flight
InitAggIdle ==
    /\ refresh = NoRefresh
    /\ history = <<>>
    /\ clock = 1
    /\ alast = [op |-> "init"]
    /\ nruns = 0
    /\ ratesTorn = FALSE
    /\ aw = NoWrite
    /\ rq = [op |-> "init"]
    /\ runners = NoRunners
    /\ sched = NoScheduler
    /\ env = DefaultEnv

InitFiles ==
    /\ users = <<>>
    /\ session = NoSession
    /\ last = [op |-> "init"]
    /\ ntrades = 0
    /\ portsTorn = FALSE
    /\ wr = NoWrite
    /\ InitAggIdle

InitWalletIdle ==
    /\ wallet = WalletNew("USD", Zero)
    /\ wlast = [op |-> "init"]
    /\ wops = 0

Init ==
    /\ InitFiles
    /\ ports \in PortfolioFiles
    /\ rates \in RateFiles
    /\ InitWalletIdle

(***************************************************************************)
(* actions: one per use case                                               *)
(***************************************************************************)
walletVars == <<wallet, wlast, wops>>

\* the threads that run updates, the scheduler loop, the settings of the process
procVars == <<runners, sched, env>>

aggVars == <<refresh, history, clock, alast, nruns, ratesTorn, aw, rq, procVars>>

RegisterAs(u, p) ==
    LET e == RegisterCheck(users, u, p)
        e2 == IF e # NoExc THEN e ELSE IF portsTorn THEN JSONDecodeError ELSE NoExc
        nu == NewUser(users, u, p)
    IN  /\ ~wr.active
        /\ users' = IF e = NoExc THEN Append(users, nu) ELSE users
        /\ ports' = IF e2 = NoExc THEN Append(ports, Entry(nu.user_id, EmptyWallets)) ELSE ports
        /\ last' = [op |-> "register", username |-> u, res |-> [exc |-> e2], pre |-> ports,
                    users |-> users, session |-> session]
        /\ UNCHANGED <<session, rates, ntrades, portsTorn, wr, walletVars, aggVars>>

Register == \E u \in NameInputs, p \in PasswordInputs : RegisterAs(u, p)

\* mutant: the session is written before the password is compared
LoginSession_early(e, sess, user_id, username) ==
    IF e = NoExc \/ (e.exc = "ValueError" /\ e.msg = "wrong_password")
    THEN [user_id |-> user_id, username |-> username]
    ELSE sess

\* the session file after login: _set_session is the last step
LoginSession(e, sess, user_id, username) ==
    IF e = NoExc THEN [user_id |-> user_id, username |-> username] ELSE sess

LoginAs(u, p) ==
    LET e == LoginCheck(users, u, p)
        i == FindUserByUsername(users, StripName(u))
    IN  /\ ~wr.active
        /\ session' = LoginSession(e, session, IF i = 0 THEN 0 ELSE users[i].user_id,
                                   StripName(u))
        /\ last' = [op |-> "login", username |-> u, password |-> p, res |-> [exc |-> e],
                    pre |-> ports, session |-> session]
        /\ UNCHANGED <<users, ports, rates, ntrades, portsTorn, wr, walletVars, aggVars>>

Login == \E u \in NameInputs, p \in PasswordInputs : LoginAs(u, p)

\* a whole buy or sell; the portfolio file ends as _save_user_portfolio leaves it
Trade(op, c, a) ==
    LET res == IF op = "buy" THEN BuyResult(session, portsTorn, ports, rates, c, a)
               ELSE SellResult(session, portsTorn, ports, rates, c, a)
    IN  /\ ~wr.active
        /\ res.saved => ntrades < MaxTrades
        /\ ports' = IF res.saved THEN SaveUserPortfolio(ports, res.uid, res.wallets) ELSE ports
        /\ ntrades' = IF res.saved THEN ntrades + 1 ELSE ntrades
        /\ last' = [op |-> op, currency |-> c, amount |-> a, res |-> res, pre |-> ports,
                    session |-> session]
        /\ UNCHANGED <<users, session, rates, portsTorn, wr, walletVars, aggVars>>

Buy == \E c \in CodeInputs, a \in AmountInputs : Trade("buy", c, a)

Sell == \E c \in CodeInputs, a \in AmountInputs : Trade("sell", c, a)

Next == Register \/ Login \/ Buy \/ Sell

Spec == Init /\ [][Next]_vars

(***************************************************************************)
(* The portfolio file as an outside reader sees it.  _save_json opens the  *)
(* file with mode "w", which truncates it, and json.dump then writes the   *)
(* text into it.  portsTorn says that the file on disk is empty or holds a *)
(* prefix of the text; ports is then the last complete content and wr the  *)
(* content being written.  The process can die between the two steps.      *)
(***************************************************************************)
TradeOpen(op, c, a) ==
    LET res == IF op = "buy" THEN BuyResult(session, portsTorn, ports, rates, c, a)
               ELSE SellResult(session, portsTorn, ports, rates, c, a)
    IN  /\ ~wr.active
        /\ res.saved => ntrades < MaxTrades
        /\ portsTorn' = (portsTorn \/ res.saved)
        /\ wr' = IF res.saved
                 THEN [active |-> TRUE, data |-> SaveUserPortfolio(ports, res.uid, res.wallets)]
                 ELSE wr
        /\ ntrades' = IF res.saved THEN ntrades + 1 ELSE ntrades
        /\ last' = [op |-> op, currency |-> c, amount |-> a, res |-> res, pre |-> ports]
        /\ UNCHANGED <<users, ports, session, rates, walletVars, aggVars>>

BuyOpen == \E c \in CodeInputs, a \in AmountInputs : TradeOpen("buy", c, a)

SellOpen == \E c \in CodeInputs, a \in AmountInputs : TradeOpen("sell", c, a)

\* json.dump and the close of the file complete
WriteDone ==
    /\ wr.active
    /\ ports' = wr.data
    /\ portsTorn' = FALSE
    /\ wr' = NoWrite
    /\ UNCHANGED <<users, session, rates, last, ntrades, walletVars, aggVars>>

\* the process dies before json.dump has completed, and is started again
Crash ==
    /\ wr.active
    /\ wr' = NoWrite
    /\ UNCHANGED <<users, ports, session, rates, last, ntrades, portsTorn, walletVars, aggVars>>

NextIO == Register \/ Login \/ BuyOpen \/ SellOpen \/ WriteDone \/ Crash

SpecIO == Init /\ [][NextIO]_vars

(***************************************************************************)
(* Wallet on its own: deposit and withdraw applied to one Wallet object.   *)
(***************************************************************************)
WalletAmounts == AmountInputs \cup {Rat(-1, 1)}

InitWallet ==
    /\ InitFiles
    /\ ports = <<>>
    /\ rates \in RateFiles
    /\ wallet \in {WalletNew(c, b) : c \in {"USD", "BTC"}, b \in {Zero, One, Rat(2, 1)}}
    /\ wlast = [op |-> "init"]
    /\ wops = 0

fileVars == <<users, ports, session, rates, last, ntrades, portsTorn, wr, aggVars>>

Deposit ==
    \E a \in WalletAmounts :
        /\ wops < MaxWalletOps
        /\ wallet' = WalletDeposit(wallet, a)
        /\ wlast' = [op |-> "deposit", amount |-> a, pre |-> wallet.balance]
        /\ wops' = wops + 1
        /\ UNCHANGED fileVars

Withdraw ==
    \E a \in WalletAmounts :
        /\ wops < MaxWalletOps
        /\ wallet' = WalletWithdraw(wallet, a)
        /\ wlast' = [op |-> "withdraw", amount |-> a, pre |-> wallet.balance]
        /\ wops' = wops + 1
        /\ UNCHANGED fileVars

NextWallet == Deposit \/ Withdraw

SpecWallet == InitWallet /\ [][NextWallet]_vars

(***************************************************************************)
(* Parser service (parser_service/updater.py, storage.py).  A source is    *)
(* given by what its fetch_rates does in a run: it raises ApiRequestError  *)
(* (network error, timeout, HTTP status, malformed JSON), raises another   *)
(* exception, returns something that is not a dict, or returns a dict.     *)
(* now_iso and now_epoch are read from one clock value, and the clock has  *)
(* moved on by a second when a run has written its snapshot.               *)
(***************************************************************************)
EmptyPairs == [k \in {} |-> Zero]

\* a value float() rejects (None, a list, text that is not a number)
Junk == <<0, -1>>

Floatable(v) == v # Junk

\* dict update: the entries of g over those of f
Overlay(f, g) == [k \in DOMAIN f \cup DOMAIN g |-> IF k \in DOMAIN g THEN g[k] ELSE f[k]]

\* the items of a fetched dict that float() accepts
FloatItems(data) == [k \in {x \in DOMAIN data : Floatable(data[x])} |-> data[k]]

\* prev_pairs: the pair entries of the previous snapshot; {} when it cannot be read
PrevPairs(rf, torn) ==
    IF torn THEN EmptyPairs
    ELSE [k \in DOMAIN rf |-> [rate |-> rf[k].rate, updated_at |-> rf[k].updated_at]]

NoFetch == [new_flat |-> EmptyPairs, any_success |-> FALSE, queried |-> {}]

\* the loop over the clients that gives up at the first client that fails
RECURSIVE FetchFrom_abort(_, _, _)
FetchFrom_abort(results, i, acc) ==
    IF i > Len(results) THEN acc
    ELSE IF results[i].kind # "ok" THEN [acc EXCEPT !.queried = @ \cup {i}]
    ELSE FetchFrom_abort(results, i + 1,
             [new_flat |-> Overlay(acc.new_flat, FloatItems(results[i].data)),
              any_success |-> acc.any_success \/ DOMAIN results[i].data # {},
              queried |-> acc.queried \cup {i}])

\* the loop over the clients where a later client never overwrites a key
RECURSIVE FetchFrom_firstWins(_, _, _)
FetchFrom_firstWins(results, i, acc) ==
    IF i > Len(results) THEN acc
    ELSE IF results[i].kind # "ok"
         THEN FetchFrom_firstWins(results, i + 1, [acc EXCEPT !.queried = @ \cup {i}])
    ELSE FetchFrom_firstWins(results, i + 1,
             [new_flat |-> Overlay(FloatItems(results[i].data), acc.new_flat),
              any_success |-> acc.any_success \/ DOMAIN results[i].data # {},
              queried |-> acc.queried \cup {i}])

\* the loop over the clients, from client i on: new_flat, any_success and the
\* clients whose fetch_rates was called
RECURSIVE FetchFrom(_, _, _)
FetchFrom(results, i, acc) ==
    IF i > Len(results) THEN acc
    ELSE IF results[i].kind # "ok"
         THEN FetchFrom(results, i + 1, [acc EXCEPT !.queried = @ \cup {i}])
    ELSE FetchFrom(results, i + 1,
             [new_flat |-> Overlay(acc.new_flat, FloatItems(results[i].data)),
              any_success |-> acc.any_success \/ DOMAIN results[i].data # {},
              queried |-> acc.queried \cup {i}])

\* the new pairs stamped with now_iso
Stamped(new_flat, now) ==
    [k \in DOMAIN new_flat |-> [rate |-> new_flat[k], updated_at |-> Iso(now)]]

\* latest built from the new pairs alone
Latest_newOnly(prev_pairs, new_flat, now) == Stamped(new_flat, now)

\* latest: the previous pairs carried over, the new pairs over them
Latest(prev_pairs, new_flat, now) == Overlay(prev_pairs, Stamped(new_flat, now))

\* run_update that writes whatever the sources gave
RunUpdateResult_alwaysWrite(rf, torn, results, now) ==
    LET f == FetchFrom(results, 1, NoFetch)
    IN  [exc |-> NoExc, written |-> TRUE,
         queried |-> f.queried, new_flat |-> f.new_flat,
         pairs |-> Latest(PrevPairs(rf, torn), f.new_flat, now),
         refresh |-> [source |-> "ParserService", last_refresh |-> Iso(now),
                      last_refresh_epoch |-> now]]

\* run_update up to the call of the storage
RunUpdateResult(rf, torn, results, now) ==
    LET prev_pairs == PrevPairs(rf, torn)
        f == FetchFrom(results, 1, NoFetch)
    IN  IF ~f.any_success \/ DOMAIN f.new_flat = {}
        THEN [exc |-> ApiRequestError("no_rates"), written |-> FALSE,
              queried |-> f.queried, new_flat |-> f.new_flat]
        ELSE [exc |-> NoExc, written |-> TRUE,
              queried |-> f.queried, new_flat |-> f.new_flat,
              pairs |-> Latest(prev_pairs, f.new_flat, now),
              refresh |-> [source |-> "ParserService", last_refresh |-> Iso(now),
                           last_refresh_epoch |-> now]]

\* append_history that starts the list again
AppendHistory_reset(hist, pairs, meta) ==
    <<[ts |-> meta.last_refresh, source |-> meta.source, pairs |-> pairs]>>

\* append_history on a history file that holds a list
AppendHistory(hist, pairs, meta) ==
    Append(hist, [ts |-> meta.last_refresh, source |-> meta.source, pairs |-> pairs])

AggKeys == {Key("BTC", "USD"), Key("EUR", "USD")}

\* what a source can return under a key
AggValues(k) == IF k = Key("BTC", "USD") THEN {One, Zero, Junk} ELSE {Rat(2, 1)}

SourceData ==
    UNION {{d \in [ks -> {One, Zero, Junk, Rat(2, 1)}] : \A k \in ks : d[k] \in AggValues(k)}
               : ks \in SUBSET AggKeys}

SourceResults ==
    {[kind |-> k] : k \in {"ApiRequestError", "Exception", "not_dict"}}
        \cup {[kind |-> "ok", data |-> d] : d \in SourceData}

\* the clients of _build_clients("all"): two sources, in list order
ClientResults == {<<a, b>> : a \in SourceResults, b \in SourceResults}

\* rates.json at the start: absent, or holding two pairs
AggRateFiles ==
    { EmptyPairs,
      (Key("BTC", "USD") :> Quote(Rat(2, 1))) @@ (Key("USD", "EUR") :> Quote(Rat(1, 2))) }

InitAgg ==
    /\ InitFiles
    /\ ports = <<>>
    /\ rates \in AggRateFiles
    /\ InitWalletIdle

coreVars == <<users, ports, session, last, ntrades, portsTorn, wr, walletVars, rq>>

\* one aggregation run, from the read of the previous snapshot to the end of
\* write_rates_snapshot
RunUpdate ==
    \E results \in ClientResults :
        LET res == RunUpdateResult(rates, ratesTorn, results, clock) IN
            /\ ~aw.active
            /\ res.written => nruns < MaxRuns
            /\ rates' = IF res.written THEN res.pairs ELSE rates
            /\ refresh' = IF res.written THEN res.refresh ELSE refresh
            /\ ratesTorn' = IF res.written THEN FALSE ELSE ratesTorn
            /\ history' = IF res.written THEN AppendHistory(history, res.pairs, res.refresh)
                          ELSE history
            /\ nruns' = IF res.written THEN nruns + 1 ELSE nruns
            /\ alast' = [op |-> "run_update", results |-> results, res |-> res, now |-> clock,
                         pre |-> [rates |-> rates, refresh |-> refresh, history |-> history]]
            /\ clock' = IF res.written THEN clock + 1 ELSE clock
            /\ UNCHANGED <<aw, coreVars, procVars>>

NextAgg == RunUpdate

SpecAgg == InitAgg /\ [][NextAgg]_vars

(***************************************************************************)
(* The rates file as the foreground sees it while the scheduler thread     *)
(* runs an update.  write_rates_snapshot opens rates.json with mode "w",   *)
(* which truncates it, and json.dump then writes the text into it.         *)
(* ratesTorn says that the file on disk is empty or holds a prefix of the  *)
(* text; rates and refresh are then its last complete content and aw the   *)
(* content being written.  The scheduler runs one source.                  *)
(***************************************************************************)
\* the clients of _build_clients("coingecko"): one source
OneClientResults == {<<a>> : a \in SourceResults}

\* run_update up to open(snap_path, "w") in write_rates_snapshot
RunOpen ==
    \E results \in OneClientResults :
        LET res == RunUpdateResult(rates, ratesTorn, results, clock) IN
            /\ ~aw.active
            /\ res.written => nruns < MaxRuns
            /\ ratesTorn' = (ratesTorn \/ res.written)
            /\ aw' = IF res.written
                     THEN [active |-> TRUE, data |-> [rates |-> res.pairs, refresh |-> res.refresh]]
                     ELSE aw
            /\ nruns' = IF res.written THEN nruns + 1 ELSE nruns
            /\ alast' = [op |-> "run_update", results |-> results, res |-> res, now |-> clock,
                         pre |-> [rates |-> rates, refresh |-> refresh, history |-> history]]
            /\ clock' = IF res.written THEN clock + 1 ELSE clock
            /\ UNCHANGED <<rates, refresh, history, coreVars, procVars>>

\* json.dump and the close of rates.json complete, then append_history
RunDump ==
    /\ aw.active
    /\ rates' = aw.data.rates
    /\ refresh' = aw.data.refresh
    /\ ratesTorn' = FALSE
    /\ history' = AppendHistory(history, aw.data.rates, aw.data.refresh)
    /\ aw' = NoWrite
    /\ UNCHANGED <<clock, alast, nruns, coreVars, procVars>>

\* what json.load gives for rates.json
Snapshot(rf, meta) == [rates |-> rf, refresh |-> meta]

readFrame == <<users, ports, session, rates, last, ntrades, portsTorn, wr, walletVars,
               refresh, history, clock, alast, nruns, ratesTorn, aw, procVars>>

\* _load_json(RATES_PATH, {}) of usecases.py: the read of get_rate, buy, sell
\* and show_portfolio; only FileNotFoundError is caught
LoadJsonRates ==
    /\ rq' = [op |-> "read", fn |-> "_load_json",
              exc |-> IF ratesTorn THEN JSONDecodeError ELSE NoExc,
              seen |-> Snapshot(rates, refresh),
              complete |-> Snapshot(rates, refresh), writing |-> aw]
    /\ UNCHANGED readFrame

\* _read_json(cfg.RATES_FILE_PATH, default={}) of cli/interface.py: the read of
\* show-rates; JSONDecodeError gives the default
ReadJsonRates ==
    /\ rq' = [op |-> "read", fn |-> "_read_json", exc |-> NoExc,
              seen |-> IF ratesTorn THEN Snapshot(EmptyPairs, NoRefresh)
                       ELSE Snapshot(rates, refresh),
              complete |-> Snapshot(rates, refresh), writing |-> aw]
    /\ UNCHANGED readFrame

NextAggIO == RunOpen \/ RunDump \/ LoadJsonRates \/ ReadJsonRates

SpecAggIO == InitAgg /\ [][NextAggIO]_vars

(***************************************************************************)
(* Two threads that run updates: the scheduler thread started by main.py   *)
(* and the foreground thread in the update-rates command.  Nothing in      *)
(* run_update, RatesStorage, run_scheduler or update_rates takes a lock,   *)
(* so the steps of the two runs interleave freely.  A run reads the        *)
(* previous snapshot and fetches (RunBegin), rewrites rates.json           *)
(* (RunWriteSnapshot), reads the history list (RunReadHistory) and         *)
(* rewrites it with its record appended (RunWriteHistory).                 *)
(***************************************************************************)
Runners == {"scheduler", "cli"}

Idle == [pc |-> "idle"]

fgVars == <<users, ports, session, last, ntrades, portsTorn, wr, walletVars, rq, sched, env, aw>>

RunBegin(p) ==
    \E results \in OneClientResults :
        LET res == RunUpdateResult(rates, ratesTorn, results, clock) IN
            /\ runners[p].pc = "idle"
            /\ res.written
            /\ nruns < MaxRuns
            /\ runners' = [runners EXCEPT ![p] =
                               [pc |-> "built", results |-> results, res |-> res, now |-> clock,
                                prev |-> rates]]
            /\ nruns' = nruns + 1
            /\ clock' = clock + 1
            /\ UNCHANGED <<rates, refresh, ratesTorn, history, alast, fgVars>>

\* a run that got no rates raises before it touches a file
RunNoRates(p) ==
    \E results \in OneClientResults :
        LET res == RunUpdateResult(rates, ratesTorn, results, clock) IN
            /\ runners[p].pc = "idle"
            /\ ~res.written
            /\ alast' = [op |-> "run_update", runner |-> p, results |-> results, res |-> res,
                         now |-> clock, prev |-> rates]
            /\ UNCHANGED <<rates, refresh, ratesTorn, history, runners, nruns, clock, fgVars>>

RunWriteSnapshot(p) ==
    /\ runners[p].pc = "built"
    /\ rates' = runners[p].res.pairs
    /\ refresh' = runners[p].res.refresh
    /\ ratesTorn' = FALSE
    /\ runners' = [runners EXCEPT ![p].pc = "snap"]
    /\ UNCHANGED <<history, alast, nruns, clock, fgVars>>

RunReadHistory(p) ==
    /\ runners[p].pc = "snap"
    /\ runners' = [runners EXCEPT ![p] = [pc |-> "hist", results |-> @.results, res |-> @.res,
                                          now |-> @.now, prev |-> @.prev, hist |-> history]]
    /\ UNCHANGED <<rates, refresh, ratesTorn, history, alast, nruns, clock, fgVars>>

RunWriteHistory(p) ==
    /\ runners[p].pc = "hist"
    /\ history' = AppendHistory(runners[p].hist, runners[p].res.pairs, runners[p].res.refresh)
    /\ alast' = [op |-> "run_update", runner |-> p, results |-> runners[p].results,
                 res |-> runners[p].res, now |-> runners[p].now, prev |-> runners[p].prev]
    /\ runners' = [runners EXCEPT ![p] = Idle]
    /\ UNCHANGED <<rates, refresh, ratesTorn, nruns, clock, fgVars>>

\* RatesUpdater(clients, storage).run_update() in thread p: in the daemon
\* thread of run_scheduler, or in the main thread for update_rates
RunUpdateBy(p) ==
    \/ RunBegin(p) \/ RunNoRates(p) \/ RunWriteSnapshot(p)
    \/ RunReadHistory(p) \/ RunWriteHistory(p)

NextAggPar == \E p \in Runners : RunUpdateBy(p)

SpecAggPar == InitAgg /\ [][NextAggPar]_vars

(***************************************************************************)
(* The resolvers on their own: one of the three resolvers is applied to a  *)
(* pair of codes over a rates file that holds any subset of three pairs.   *)
(***************************************************************************)
ResolveCodes == CodeInputs \cup {"X"}

ResolveRates == {Rat(2, 1), Zero, Rat(-1, 2), NaN}

ResolveKeys == {Key("BTC", "USD"), Key("USD", "BTC"), Key("EUR", "USD")}

ResolveSnapshots ==
    UNION {[ks -> {Quote(r) : r \in ResolveRates}] : ks \in SUBSET ResolveKeys}

InitResolve ==
    /\ InitFiles
    /\ ports = <<>>
    /\ rates \in ResolveSnapshots
    /\ InitWalletIdle

\* the variables a resolver leaves alone: everything but the record of the call
resolveFrame == <<users, ports, session, rates, last, ntrades, portsTorn, wr, walletVars,
                  refresh, history, clock, alast, nruns, ratesTorn, aw, procVars>>

Resolved(fn, frm, to, res) ==
    /\ rq' = [op |-> "resolve", fn |-> fn, frm |-> frm, to |-> to, res |-> res, pre |-> rates]
    /\ UNCHANGED resolveFrame

ResolveGetRatePair ==
    \E frm \in ResolveCodes, to \in ResolveCodes :
        Resolved("_get_rate_pair", NormCode(frm), NormCode(to), GetRatePair(frm, to, rates))

ResolveGetRate ==
    \E frm \in ResolveCodes, to \in ResolveCodes :
        Resolved("_get_rate", Upper(frm), Upper(to), GetRate(frm, to, LoadRatesMap(rates)))

ResolveRateFromFlat ==
    \E frm \in ResolveCodes, to \in ResolveCodes :
        Resolved("rate_from_flat", NormCode(frm), NormCode(to),
                 RateFromFlat(frm, to, LoadRatesMap(rates)))

\* _get_rate_from_flat, the resolver of cli/interface.py: strip and upper,
\* no check of the codes
GetRateFromFlat(frm0, to0, flat) ==
    LET f == NormCode(frm0)
        t == NormCode(to0)
    IN  IF f = t THEN [exc |-> NoExc, rate |-> One]
        ELSE IF Key(f, t) \in DOMAIN flat
             THEN [exc |-> NoExc, rate |-> flat[Key(f, t)]]
        ELSE IF Key(t, f) \in DOMAIN flat /\ flat[Key(t, f)] # Zero
             THEN [exc |-> NoExc, rate |-> RInv(flat[Key(t, f)])]
        ELSE [exc |-> NoRateError("no_rate_for_pair", f, t), rate |-> Zero]

\* the four resolvers called with the same codes on the same rates file
ResolveAll ==
    \E frm \in ResolveCodes, to \in ResolveCodes :
        /\ rq' = [op |-> "resolve_all", frm0 |-> frm, to0 |-> to, pre |-> rates,
                  get_rate |-> GetRate(frm, to, LoadRatesMap(rates)),
                  get_rate_pair |-> GetRatePair(frm, to, rates),
                  rate_from_flat |-> RateFromFlat(frm, to, LoadRatesMap(rates)),
                  cli |-> GetRateFromFlat(frm, to, LoadRatesMap(rates))]
        /\ UNCHANGED resolveFrame

NextResolve == ResolveGetRatePair \/ ResolveGetRate \/ ResolveRateFromFlat \/ ResolveAll

SpecResolve == InitResolve /\ [][NextResolve]_vars

(***************************************************************************)
(* Properties                                                              *)
(***************************************************************************)
IsTrade == last.op \in {"buy", "sell"}

\* the trade passed the validation of session, code and amount and read the portfolio
Reached == IsTrade /\ "rated" \in DOMAIN last.res

\* the wallets of the session's user in the portfolio file now, and before the call
After == LoadUserPortfolio(ports, session.user_id)
Before == LoadUserPortfolio(last.pre, session.user_id)

Others(code) == (DOMAIN After \cup DOMAIN Before) \ {code, "USD"}

\* C1: every balance persisted in the portfolio file is >= 0, after any
\* sequence of register, login, buy and sell from a file with balances >= 0.
C1_BalancesNonNegative ==
    \A i \in DOMAIN ports : \A c \in DOMAIN ports[i].wallets :
        RGe(ports[i].wallets[c], Zero)

\* C2: a buy or sell that fails, for whatever reason, leaves the portfolio
\* file exactly as it was before the call.
C2_FailedTradeChangesNothing ==
    (IsTrade /\ last.res.exc # NoExc) => (ports = last.pre /\ ~last.res.saved)

\* a buy that fails as late as it can: in the withdrawal of a cost of 0
C2_Witness ==
    /\ last.op = "buy"
    /\ Reached /\ last.res.rated /\ last.res.rate = Zero
    /\ last.res.exc = ValueError("amount_not_positive")
    /\ ports = last.pre /\ Len(ports) > 0

\* C3: a successful buy(code, amount) at rate r leaves USD at previous USD -
\* amount*r and the code wallet at previous code balance + amount, creates the
\* code wallet when it is missing and leaves every other wallet unchanged.
C3_BuyBalances ==
    (last.op = "buy" /\ last.res.saved) =>
        LET code == NormCode(last.currency)
            r == GetRatePair(code, "USD", rates).rate
        IN  /\ DOMAIN After = DOMAIN Before \cup {code, "USD"}
            /\ After["USD"] = RSub(Bal(Before, "USD"), RMul(last.amount, r))
            /\ After[code] = RAdd(Bal(Before, code), last.amount)
            /\ \A c \in Others(code) : c \in DOMAIN Before /\ After[c] = Before[c]

\* C3 for every bought currency other than USD
C3_BuyBalancesNonUsd == (IsTrade /\ NormCode(last.currency) # "USD") => C3_BuyBalances

\* C4: a successful sell(code, amount) at rate r leaves the code wallet at
\* previous - amount and USD at previous USD + amount*r, creates the USD wallet
\* when it is missing and leaves every other wallet unchanged; wallets
\* {BTC: 0.01, USD: 500} at BTC_USD = 60000, sell BTC 0.01, give {BTC: 0, USD: 1100}.
C4_SellBalances ==
    /\ (last.op = "sell" /\ last.res.saved) =>
          LET code == NormCode(last.currency)
              r == GetRatePair(code, "USD", rates).rate
          IN  /\ code # "USD"
              /\ DOMAIN After = DOMAIN Before \cup {code, "USD"}
              /\ After[code] = RSub(Bal(Before, code), last.amount)
              /\ After["USD"] = RAdd(Bal(Before, "USD"), RMul(last.amount, r))
              /\ \A c \in Others(code) : c \in DOMAIN Before /\ After[c] = Before[c]
    /\ LET pf == <<Entry(1, ("BTC" :> Rat(1, 100)) @@ ("USD" :> Rat(500, 1)))>>
           rf == Key("BTC", "USD") :> Quote(Rat(60000, 1))
           res == SellResult([user_id |-> 1, username |-> "alice"], FALSE, pf, rf,
                             "BTC", Rat(1, 100))
       IN  /\ res.saved
           /\ res.wallets = ("BTC" :> Zero) @@ ("USD" :> Rat(1100, 1))

\* a sell that succeeded, created the USD wallet and left a third wallet alone
C4_Witness ==
    /\ last.op = "sell" /\ last.res.saved
    /\ "USD" \notin DOMAIN Before /\ "USD" \in DOMAIN After
    /\ RGt(last.amount, Zero)

\* a sell that succeeded on a portfolio with a USD balance and a third wallet
C4_WitnessOther ==
    /\ last.op = "sell" /\ last.res.saved
    /\ RGt(Bal(Before, "USD"), Zero)
    /\ Others(NormCode(last.currency)) # {}

\* the value in USD of wallets w, the traded code taken at rate r
ValueAt(w, code, r) ==
    IF code = "USD" THEN Bal(w, "USD")
    ELSE RAdd(Bal(w, "USD"), RMul(Bal(w, code), r))

\* C5: every successful buy (of a number of units) conserves the value of
\* the portfolio in USD at the rate of the trade, for every registered target
\* currency, USD included.
C5_BuyConservesValue ==
    (last.op = "buy" /\ last.res.saved /\ ~IsNaN(last.amount)) =>
        LET code == NormCode(last.currency)
            r == GetRatePair(code, "USD", rates).rate
        IN  ValueAt(After, code, r) = ValueAt(Before, code, r)

\* C5 for every bought currency other than USD
C5_BuyConservesValueNonUsd == (IsTrade /\ NormCode(last.currency) # "USD") => C5_BuyConservesValue

\* C6: sell("USD", amount) under a session fails with the currency-restriction
\* error, for every amount and every USD balance, and in every case changes
\* nothing in the portfolio file.
C6_SellUsdRefused ==
    (last.op = "sell" /\ NormCode(last.currency) = "USD") =>
        /\ last.res.exc # NoExc
        /\ ports = last.pre
        /\ session # NoSession => last.res.exc = ValueError("sell_usd_not_supported")

\* sell USD of a valid amount that the USD balance covers, refused
C6_Witness ==
    /\ last.op = "sell" /\ last.currency = "USD"
    /\ session # NoSession
    /\ RGt(last.amount, Zero) /\ RGe(Bal(After, "USD"), last.amount)
    /\ last.res.exc = ValueError("sell_usd_not_supported")

\* C7: buy fails with InsufficientFunds(pre-call USD balance, amount*rate, USD)
\* exactly when the USD balance is < amount*rate; sell fails with
\* InsufficientFunds(pre-call balance of the code, amount, code) exactly when that
\* balance is < amount; a balance equal to the requirement passes, and the
\* trade then leaves the debited wallet at 0.
C7_FundsCheck ==
    LET code == NormCode(last.currency)
        short == last.res.exc.exc = "InsufficientFundsError"
    IN  /\ last.op = "buy" =>
              LET rp == GetRatePair(code, "USD", rates)
                  cost == RMul(last.amount, rp.rate)
                  usd == Bal(Before, "USD")
              IN  /\ short <=> (Reached /\ rp.exc = NoExc /\ RLt(usd, cost))
                  /\ short => last.res.exc = InsufficientFundsError(usd, cost, "USD")
                  /\ (Reached /\ rp.exc = NoExc /\ REq(usd, cost) /\ RGt(cost, Zero)) =>
                         (last.res.saved /\ After["USD"] = Zero)
        /\ last.op = "sell" =>
              LET rp == GetRatePair(code, "USD", rates)
                  bal == Bal(Before, code)
              IN  /\ short <=> (Reached /\ RLt(bal, last.amount))
                  /\ short => last.res.exc = InsufficientFundsError(bal, last.amount, code)
                  /\ (Reached /\ REq(bal, last.amount) /\ rp.exc = NoExc /\ RGt(rp.rate, Zero)) =>
                         (last.res.saved /\ After[code] = Zero)

\* a buy whose cost is exactly the USD balance, accepted
C7_Witness ==
    /\ last.op = "buy" /\ last.res.saved
    /\ RGt(Bal(Before, "USD"), Zero)
    /\ REq(Bal(Before, "USD"), RMul(last.amount, last.res.rate))
    /\ After["USD"] = Zero

\* C8: Wallet.withdraw never leaves the balance below 0; with amount > balance
\* it raises InsufficientFunds(available, required, code) holding the pre-call
\* balance and the requested amount and leaves the balance unchanged; otherwise
\* (amount > 0) the balance decreases by exactly amount.
C8_WithdrawInsufficientFunds ==
    /\ ~RLt(wallet.balance, Zero)
    /\ wlast.op = "withdraw" =>
          /\ RGt(wlast.amount, wlast.pre) =>
                /\ wallet.exc = InsufficientFundsError(wlast.pre, wlast.amount, wallet.code)
                /\ wallet.balance = wlast.pre
          /\ (RGt(wlast.amount, Zero) /\ RLe(wlast.amount, wlast.pre)) =>
                wallet.balance = RSub(wlast.pre, wlast.amount)

\* C9: deposit and withdraw with amount <= 0 fail with the invalid-amount
\* error and leave the balance unchanged; deposit with amount > 0 increases the
\* balance by exactly amount.
C9_InvalidAmount ==
    /\ (wlast.op \in {"deposit", "withdraw"} /\ RLe(wlast.amount, Zero)) =>
          /\ wallet.exc = ValueError("amount_not_positive")
          /\ wallet.balance = wlast.pre
    /\ (wlast.op = "deposit" /\ RGt(wlast.amount, Zero)) =>
          /\ wallet.exc = NoExc
          /\ wallet.balance = RAdd(wlast.pre, wlast.amount)

\* a deposit of a positive amount into a wallet that held something
C9_Witness ==
    /\ wlast.op = "deposit" /\ RGt(wlast.amount, Zero) /\ RGt(wlast.pre, Zero)
    /\ wallet.balance = RAdd(wlast.pre, wlast.amount)

\* a withdrawal of 0 refused
C9_WitnessZero ==
    /\ wlast.op = "withdraw" /\ wlast.amount = Zero /\ RGt(wlast.pre, Zero)
    /\ wallet.exc = ValueError("amount_not_positive")

\* C10: a reader of the portfolio file at any point during a buy or sell, or
\* after a crash in the middle of one, finds the complete pre-trade or the
\* complete post-trade portfolio, never an empty or truncated file.
C10_AtomicPortfolioWrite ==
    /\ ~portsTorn
    /\ wr.active => ports \in {last.pre, wr.data}

(***************************************************************************)
(* Properties of the resolvers (SpecResolve)                               *)
(***************************************************************************)
\* a call of a resolver on two codes of 2-5 upper-case letters or digits
ResolvedCodes ==
    /\ rq.op = "resolve"
    /\ rq.frm \notin {"", " ", "X"}
    /\ rq.to \notin {"", " ", "X"}

Returned(r) == [exc |-> NoExc, rate |-> r]

\* C12: for codes A # B, when the snapshot holds A_B with a rate r # 0 then
\* resolve(A, B) returns r; when it holds A_B (r # 0) but not B_A then
\* resolve(B, A) returns 1/r; with both keys each direction returns its own entry.
C12_DirectAndInverse ==
    (ResolvedCodes /\ rq.frm # rq.to) =>
        LET flat == LoadRatesMap(rates)
            direct == Key(rq.frm, rq.to)
            inverse == Key(rq.to, rq.frm)
        IN  /\ (direct \in DOMAIN flat /\ flat[direct] # Zero) =>
                    rq.res = Returned(flat[direct])
            /\ (direct \notin DOMAIN flat /\ inverse \in DOMAIN flat /\ flat[inverse] # Zero) =>
                    /\ rq.res.exc = NoExc
                    /\ IF IsNaN(flat[inverse]) THEN IsNaN(rq.res.rate)
                       ELSE RMul(rq.res.rate, flat[inverse]) = One

\* USD -> EUR resolved through the entry EUR_USD = 2
C12_Witness ==
    /\ ResolvedCodes
    /\ rq.frm = "USD" /\ rq.to = "EUR"
    /\ Key("EUR", "USD") \in DOMAIN rates /\ rates[Key("EUR", "USD")].rate = Rat(2, 1)
    /\ rq.res = Returned(Rat(1, 2))

\* BTC -> USD and USD -> BTC both cached: the direct entry is returned
C12_WitnessBoth ==
    /\ ResolvedCodes
    /\ rq.frm = "USD" /\ rq.to = "BTC"
    /\ {Key("BTC", "USD"), Key("USD", "BTC")} \subseteq DOMAIN rates
    /\ rates[Key("BTC", "USD")].rate = Rat(2, 1)
    /\ rates[Key("USD", "BTC")].rate = Rat(-1, 2)
    /\ rq.res = Returned(Rat(-1, 2))

\* C13: resolve(X, X) returns 1.0 for every currency code X, whatever the
\* snapshot holds and whether or not X occurs in it.
C13_SameCodeIsOne ==
    (ResolvedCodes /\ rq.frm = rq.to) => rq.res = Returned(One)

\* a code of no pair and of no registry, over the empty snapshot
C13_Witness ==
    /\ ResolvedCodes
    /\ rq.frm = "XXX" /\ rq.to = "XXX"
    /\ DOMAIN rates = {}
    /\ rq.res = Returned(One)

\* C14: for from # to the resolver fails, with the no-rate error naming
\* (from, to), exactly when the direct key is absent and the inverse key is
\* absent or holds 0; a zero inverse is never inverted; the snapshot is unchanged.
C14_RateUnavailable ==
    (ResolvedCodes /\ rq.frm # rq.to) =>
        LET flat == LoadRatesMap(rates)
            direct == Key(rq.frm, rq.to)
            inverse == Key(rq.to, rq.frm)
            nopath == /\ direct \notin DOMAIN flat
                      /\ (inverse \notin DOMAIN flat \/ flat[inverse] = Zero)
        IN  /\ (rq.res.exc # NoExc) <=> nopath
            /\ nopath => /\ rq.res.exc.exc = "ValueError"
                          /\ rq.res.exc.msg \in {"rate_unavailable", "no_rate_for_pair"}
                          /\ rq.res.exc.frm = rq.frm /\ rq.res.exc.to = rq.to
            /\ rates = rq.pre

\* the inverse entry holds 0 and the call failed
C14_Witness ==
    /\ ResolvedCodes
    /\ rq.frm = "USD" /\ rq.to = "EUR"
    /\ Key("EUR", "USD") \in DOMAIN rates /\ rates[Key("EUR", "USD")].rate = Zero
    /\ rq.res.exc # NoExc

(***************************************************************************)
(* Properties of the parser service (SpecAgg, SpecAggIO)                   *)
(***************************************************************************)
\* C11: rates.json on disk is at every moment a complete snapshot, and a
\* foreground read made while a run is writing returns without error the
\* complete previous snapshot or the complete new one.
C11_AtomicSnapshotWrite ==
    /\ ~ratesTorn
    /\ rq.op = "read" =>
           /\ rq.exc = NoExc
           /\ rq.seen = rq.complete \/ (rq.writing.active /\ rq.seen = rq.writing.data)

IsRun == alast.op = "run_update"

\* the pair keys source i returned with a number in the last run
NumPairs(i) ==
    IF alast.results[i].kind = "ok"
    THEN {k \in DOMAIN alast.results[i].data : alast.results[i].data[k] # Junk}
    ELSE {}

Sources == 1..Len(alast.results)

\* the pair keys obtained in the last run
Fetched == UNION {NumPairs(i) : i \in Sources}

\* the number the last source in list order returned for key k
LastValue(k) ==
    LET i == CHOOSE j \in Sources :
                 k \in NumPairs(j) /\ \A h \in Sources : k \in NumPairs(h) => h <= j
    IN  alast.results[i].data[k]

\* C15: a failing source does not abort the run: every source is queried,
\* and when at least one source returns at least one pair the run succeeds and
\* the persisted snapshot holds those pairs and every previously cached pair
\* that was not overwritten.
C15_PartialFailureTolerated ==
    IsRun =>
        /\ alast.res.queried = Sources
        /\ Fetched # {} =>
               /\ alast.res.exc = NoExc
               /\ \A i \in Sources : \A k \in NumPairs(i) :
                      /\ k \in DOMAIN rates
                      /\ \E j \in Sources :
                             k \in NumPairs(j) /\ rates[k].rate = alast.results[j].data[k]
               /\ \A k \in DOMAIN alast.pre.rates :
                      /\ k \in DOMAIN rates
                      /\ k \notin Fetched => rates[k] = alast.pre.rates[k]

\* the first source failed, the second returned a pair, and a cached pair
\* that no source returned is still in the snapshot
C15_Witness ==
    /\ IsRun
    /\ alast.results[1].kind = "ApiRequestError"
    /\ NumPairs(2) = {Key("BTC", "USD")}
    /\ Key("USD", "EUR") \in DOMAIN alast.pre.rates
    /\ Key("USD", "EUR") \in DOMAIN rates
    /\ rates[Key("BTC", "USD")].rate = One

\* C16: when no source gives a pair, run_update raises the no-rates error
\* and writes nothing: snapshot pairs, refresh keys and history are as before.
C16_NoRatesLeavesFilesAlone ==
    (IsRun /\ Fetched = {}) =>
        /\ alast.res.exc = ApiRequestError("no_rates")
        /\ rates = alast.pre.rates
        /\ refresh = alast.pre.refresh
        /\ history = alast.pre.history

\* both sources failed over a snapshot written by an earlier run
C16_Witness ==
    /\ IsRun /\ Fetched = {}
    /\ \A i \in Sources : alast.results[i].kind # "ok"
    /\ alast.res.exc = ApiRequestError("no_rates")
    /\ nruns = 1 /\ Len(history) = 1 /\ DOMAIN rates # {}

\* C17: after a successful run the snapshot has every key it had before;
\* a pair not fetched keeps its rate and observed_at, a fetched pair has the
\* fetched rate and observed_at = the run's timestamp = refreshed_at.
C17_MergeKeepsPrevious ==
    (IsRun /\ alast.res.exc = NoExc) =>
        /\ DOMAIN rates = DOMAIN alast.pre.rates \cup Fetched
        /\ \A k \in DOMAIN rates :
               IF k \in Fetched
               THEN rates[k] = [rate |-> LastValue(k), updated_at |-> Iso(alast.now)]
               ELSE rates[k] = alast.pre.rates[k]
        /\ refresh.last_refresh = Iso(alast.now)

\* one cached pair overwritten with a new rate, another carried over
C17_Witness ==
    /\ IsRun /\ alast.res.exc = NoExc
    /\ Fetched = {Key("BTC", "USD")}
    /\ DOMAIN alast.pre.rates = {Key("BTC", "USD"), Key("USD", "EUR")}
    /\ alast.pre.rates[Key("BTC", "USD")].rate = Rat(2, 1)
    /\ rates[Key("BTC", "USD")] = [rate |-> One, updated_at |-> Iso(alast.now)]
    /\ rates[Key("USD", "EUR")] = [rate |-> Rat(1, 2), updated_at |-> Iso(0)]

\* C18: when both sources of a run return the same key, the snapshot holds
\* the rate of the later source; a key only the earlier source returns keeps
\* the earlier source's rate.
C18_LaterSourceWins ==
    (IsRun /\ alast.res.exc = NoExc /\ Len(alast.results) = 2) =>
        \A k \in Fetched :
            IF k \in NumPairs(2) THEN rates[k].rate = alast.results[2].data[k]
            ELSE rates[k].rate = alast.results[1].data[k]

\* both sources returned BTC_USD with different rates, only the first EUR_USD
C18_Witness ==
    /\ IsRun /\ alast.res.exc = NoExc
    /\ NumPairs(1) = {Key("BTC", "USD"), Key("EUR", "USD")}
    /\ NumPairs(2) = {Key("BTC", "USD")}
    /\ alast.results[1].data[Key("BTC", "USD")] = One
    /\ alast.results[2].data[Key("BTC", "USD")] = Zero
    /\ rates[Key("BTC", "USD")].rate = Zero
    /\ rates[Key("EUR", "USD")].rate = Rat(2, 1)

\* C19: every rate of a snapshot persisted by a run is strictly positive.
C19_PersistedRatesPositive ==
    (IsRun /\ alast.res.exc = NoExc) =>
        \A k \in DOMAIN rates : RGt(rates[k].rate, Zero)

\* C20: the history is append-only: a successful run appends exactly one
\* record that holds all pairs of the merged snapshot, a failed run appends
\* none, and every earlier record keeps its position and content.
C20_HistoryAppendOnly ==
    /\ Len(history) = nruns
    /\ IsRun =>
           /\ SubSeq(history, 1, Len(alast.pre.history)) = alast.pre.history
           /\ IF alast.res.exc = NoExc
              THEN /\ Len(history) = Len(alast.pre.history) + 1
                   /\ history[Len(history)].pairs = rates
                   /\ history[Len(history)].ts = refresh.last_refresh
              ELSE history = alast.pre.history

\* a second record appended after a first one with other pairs
C20_Witness ==
    /\ IsRun /\ alast.res.exc = NoExc
    /\ Len(history) = 2
    /\ history[1] = alast.pre.history[1]
    /\ history[1].pairs # history[2].pairs

(***************************************************************************)
(* Freshness of the snapshot (usecases._snapshot_epoch, _rates_are_fresh,  *)
(* utils.is_cache_fresh) and the get_rate use case.  A refresh key is a    *)
(* record [k, v]: k = "none" when the key is absent, "text" for a string   *)
(* that is neither a number nor a timestamp, "int" for a number v, "iso"   *)
(* for the timestamp that _utc_iso_now writes at second v (UTC wall        *)
(* clock).  env.tz is the offset of local time from UTC in seconds.        *)
(***************************************************************************)
Field(k, v) == [k |-> k, v |-> v]

\* time.strptime + time.mktime: the wall clock of the text is read as local time
ParseIso(f, tz) ==
    IF f.k = "iso" THEN [ok |-> TRUE, v |-> f.v - tz] ELSE [ok |-> FALSE, v |-> 0]

SnapshotEpoch(snap, tz) ==
    IF snap.epoch.k = "int" /\ snap.epoch.v > 0 THEN snap.epoch.v
    ELSE IF ParseIso(snap.iso, tz).ok THEN ParseIso(snap.iso, tz).v ELSE 0

RatesAreFresh(snap, ttl, now, tz) ==
    SnapshotEpoch(snap, tz) > 0 /\ now - SnapshotEpoch(snap, tz) <= ttl

IsCacheFresh(snap, ttl, now, tz) ==
    IF snap.epoch.k = "int" THEN now - snap.epoch.v <= ttl
    ELSE IF snap.iso.k \in {"iso", "text"}
         THEN ParseIso(snap.iso, tz).ok /\ now - ParseIso(snap.iso, tz).v <= ttl
    ELSE FALSE

\* the refresh keys of rates.json as _snapshot_epoch reads them; a file
\* without last_refresh_epoch reads as 0 (snap.get's default)
SnapshotMeta(meta) ==
    [epoch |-> Field("int", meta.last_refresh_epoch),
     iso |-> IF meta.source = "" THEN Field("none", 0) ELSE Field("iso", meta.last_refresh[2])]

\* json.load of rates.json gave {} (or the file is missing)
EmptySnapshot(rf, meta) == DOMAIN rf = {} /\ meta.source = ""

GetRateUsecase(frm0, to0, rf, meta, ttl, now, tz) ==
    LET f == NormCode(frm0)
        t == NormCode(to0)
    IN  IF f = "" \/ t = "" THEN [exc |-> ValueError("empty_code"), rate |-> Zero]
        ELSE IF UnknownCurrency(f) THEN [exc |-> CurrencyNotFoundError(f), rate |-> Zero]
        ELSE IF UnknownCurrency(t) THEN [exc |-> CurrencyNotFoundError(t), rate |-> Zero]
        ELSE IF EmptySnapshot(rf, meta) \/ ~RatesAreFresh(SnapshotMeta(meta), ttl, now, tz)
             THEN [exc |-> ApiRequestError("stale"), rate |-> Zero]
        ELSE GetRatePair(f, t, rf)

Now == 100000

TzOffsets == {0, 10800, -18000}

TtlInputs == {5, 300}

EpochFields ==
    {Field("none", 0), Field("text", 0)}
        \cup {Field("int", v) : v \in {0, -1, Now - 5, Now - 10, Now - 300, Now - 301}}

IsoFields ==
    {Field("none", 0), Field("text", 0)}
        \cup {Field("iso", v) : v \in {Now - 5, Now - 10, Now - 300, Now - 301, Now - 1000}}

\* refresh keys of the files get_rate is called on: none, those of a run of
\* the updater, and last_refresh alone
FreshMetas ==
    {NoRefresh}
        \cup {[source |-> "ParserService", last_refresh |-> Iso(v), last_refresh_epoch |-> v] :
                v \in {Now - 10, Now - 300, Now - 301}}
        \cup {[source |-> "ParserService", last_refresh |-> Iso(v), last_refresh_epoch |-> 0] :
                v \in {Now - 10, Now - 1000}}

FreshRateFiles == {EmptyPairs, Key("BTC", "USD") :> Quote(Rat(2, 1)), Key("USD", "EUR") :> Quote(Zero)}

FreshCodes == {"USD", "BTC", "EUR", "btc", "XXX"}

InitFresh ==
    /\ users = <<>> /\ ports = <<>> /\ session = NoSession /\ last = [op |-> "init"]
    /\ ntrades = 0 /\ portsTorn = FALSE /\ wr = NoWrite
    /\ InitWalletIdle
    /\ rates \in FreshRateFiles
    /\ refresh \in FreshMetas
    /\ history = <<>>
    /\ clock = Now
    /\ alast = [op |-> "init"]
    /\ nruns = 0
    /\ ratesTorn = FALSE
    /\ aw = NoWrite
    /\ rq = [op |-> "init"]
    /\ runners = NoRunners
    /\ sched = NoScheduler
    /\ env \in {[ttl |-> DefaultEnv.ttl, tz |-> tz] : tz \in TzOffsets}

\* _rates_are_fresh(snap, ttl) and is_cache_fresh(snap, ttl) on one snapshot
FreshCall ==
    \E e \in EpochFields, i \in IsoFields, ttl \in TtlInputs :
        LET snap == [epoch |-> e, iso |-> i]
        IN  /\ rq' = [op |-> "fresh", snap |-> snap, ttl |-> ttl, now |-> clock,
                      usecases |-> RatesAreFresh(snap, ttl, clock, env.tz),
                      utils |-> IsCacheFresh(snap, ttl, clock, env.tz)]
            /\ UNCHANGED resolveFrame

GetRateCall ==
    \E frm \in FreshCodes, to \in FreshCodes :
        /\ rq' = [op |-> "get_rate", frm |-> NormCode(frm), to |-> NormCode(to),
                  res |-> GetRateUsecase(frm, to, rates, refresh, env.ttl, clock, env.tz),
                  pre |-> Snapshot(rates, refresh)]
        /\ UNCHANGED resolveFrame

NextFresh == FreshCall \/ GetRateCall

SpecFresh == InitFresh /\ [][NextFresh]_vars

(***************************************************************************)
(* Portfolio valuation: show_portfolio (usecases.py) and                   *)
(* Portfolio.get_total_value (models.py).  wallets maps a code to its      *)
(* balance; the wallets are taken in the order of their codes.             *)
(***************************************************************************)
Valued(total) == [exc |-> NoExc, returned |-> TRUE, total |-> total]

NotValued(e) == [exc |-> e, returned |-> FALSE, total |-> Zero]

\* the text "no wallets yet": a return without a total
NoWallets == [exc |-> NoExc, returned |-> FALSE, total |-> Zero]

CodeRank == ("BTC" :> 1) @@ ("ETH" :> 2) @@ ("EUR" :> 3) @@ ("USD" :> 4)

\* the first code of a non-empty set in sorted order
FirstCode(codes) == CHOOSE c \in codes : \A d \in codes : CodeRank[c] <= CodeRank[d]

\* _has_any_rate_for_base
HasAnyRateForBase(base, flat) == \E k \in DOMAIN flat : k[1] = base \/ k[2] = base

RECURSIVE SumBalances(_, _)
SumBalances(codes, wallets) ==
    IF codes = {} THEN Zero
    ELSE LET c == FirstCode(codes)
         IN  RAdd(wallets[c], SumBalances(codes \ {c}, wallets))

\* total += bal * _get_rate(code, base, rates), over wallets that all have a rate
RECURSIVE SumValues(_, _, _, _)
SumValues(codes, wallets, base, flat) ==
    IF codes = {} THEN Zero
    ELSE LET c == FirstCode(codes)
         IN  RAdd(RMul(wallets[c], GetRate(c, base, flat).rate),
                  SumValues(codes \ {c}, wallets, base, flat))

\* show_portfolio() without an argument: base_currency = None
NoBase == "<none>"

\* _DEFAULT_BASE: DEFAULT_BASE_CURRENCY of the settings
DefaultBase == "USD"

\* mutant: a wallet without a rate is left out of the total
ShowPortfolio_skipMissing(sess, wallets, base0, flat) ==
    LET base == NormCode(base0)
        rated == {c \in DOMAIN wallets : GetRate(c, base, flat).exc = NoExc}
    IN  IF sess = NoSession THEN NotValued(ValueError("login_first"))
        ELSE IF base = "" THEN NotValued(ValueError("unknown_base"))
        ELSE IF DOMAIN wallets = {} THEN NoWallets
        ELSE IF base0 = NoBase THEN NotValued(ValueError("unknown_base"))
        ELSE Valued(SumValues(rated, wallets, base, flat))

\* show_portfolio: the base is taken from the argument or the settings
\* first, and after the wallets are loaded from the argument alone
ShowPortfolio(sess, wallets, base0, flat) ==
    LET base == NormCode(base0)
        first == IF base0 = NoBase THEN NormCode(DefaultBase) ELSE base
        missing == {c \in DOMAIN wallets : GetRate(c, base, flat).exc # NoExc}
    IN  IF sess = NoSession THEN NotValued(ValueError("login_first"))
        ELSE IF first = "" THEN NotValued(ValueError("unknown_base"))
        ELSE IF DOMAIN wallets = {} THEN NoWallets
        ELSE IF base0 = NoBase THEN NotValued(ValueError("unknown_base"))
        ELSE IF \A c \in DOMAIN wallets : c = base
             THEN Valued(SumBalances(DOMAIN wallets, wallets))
        ELSE IF ~HasAnyRateForBase(base, flat) THEN NotValued(ValueError("unknown_base"))
        ELSE IF missing # {} THEN NotValued(GetRate(FirstCode(missing), base, flat).exc)
        ELSE Valued(SumValues(DOMAIN wallets, wallets, base, flat))

\* Portfolio(uid, wallets).get_total_value(base, exchange_rates)
GetTotalValue(wallets, base0, flat) ==
    LET base == NormCode(base0)
        others == {c \in DOMAIN wallets : c # base}
        missing == {c \in others : GetRate(c, base, flat).exc # NoExc}
    IN  IF base = "" THEN NotValued(ValueError("empty_code"))
        ELSE IF others = {} THEN Valued(SumBalances(DOMAIN wallets, wallets))
        ELSE IF DOMAIN flat = {} THEN NotValued(ValueError("no_exchange_rates"))
        ELSE IF missing # {} THEN NotValued(GetRate(FirstCode(missing), base, flat).exc)
        ELSE Valued(SumValues(DOMAIN wallets, wallets, base, flat))

ValueWallets ==
    { EmptyWallets,
      "USD" :> Rat(4, 1),
      "EUR" :> Rat(2, 1),
      ("USD" :> Rat(4, 1)) @@ ("BTC" :> One),
      ("BTC" :> Rat(2, 1)) @@ ("EUR" :> Zero),
      ("BTC" :> One) @@ ("EUR" :> Rat(2, 1)) @@ ("USD" :> Rat(4, 1)) }

ValueRateFiles ==
    { EmptyPairs,
      Key("BTC", "USD") :> Quote(Rat(2, 1)),
      Key("BTC", "USD") :> Quote(Zero),
      (Key("BTC", "USD") :> Quote(Rat(2, 1))) @@ (Key("USD", "EUR") :> Quote(Rat(1, 2))),
      (Key("BTC", "USD") :> Quote(Rat(2, 1))) @@ (Key("USD", "EUR") :> Quote(Zero)),
      (Key("USD", "BTC") :> Quote(Rat(1, 2))) @@ (Key("EUR", "USD") :> Quote(Rat(3, 1))) }

ValueBases == {"USD", "EUR", "BTC", "btc", " "}

\* alice is registered and logged in; her portfolio is the only one
Alice == [user_id |-> 1, username |-> "alice"]

InitValue ==
    /\ users = <<NewUser(<<>>, "alice", "pass1")>>
    /\ session \in {NoSession, Alice}
    /\ last = [op |-> "init"]
    /\ ntrades = 0
    /\ portsTorn = FALSE
    /\ wr = NoWrite
    /\ InitAggIdle
    /\ InitWalletIdle
    /\ \E w \in ValueWallets : ports = <<Entry(1, w)>>
    /\ rates \in ValueRateFiles

ShowPortfolioCall ==
    \E base \in ValueBases \cup {NoBase} :
        /\ rq' = [op |-> "value", fn |-> "show_portfolio", sess |-> session, base |-> NormCode(base),
                  wallets |-> LoadUserPortfolio(ports, 1), pre |-> rates,
                  res |-> ShowPortfolio(session, LoadUserPortfolio(ports, session.user_id), base,
                                        LoadRatesMap(rates))]
        /\ UNCHANGED resolveFrame

GetTotalValueCall ==
    \E base \in ValueBases :
        /\ rq' = [op |-> "value", fn |-> "get_total_value",
                  sess |-> Alice, base |-> NormCode(base),
                  wallets |-> LoadUserPortfolio(ports, 1), pre |-> rates,
                  res |-> GetTotalValue(LoadUserPortfolio(ports, 1), base, LoadRatesMap(rates))]
        /\ UNCHANGED resolveFrame

NextValue == ShowPortfolioCall \/ GetTotalValueCall

SpecValue == InitValue /\ [][NextValue]_vars

(***************************************************************************)
(* Sequences of register calls by several people, from empty files.        *)
(***************************************************************************)
MaxUsers == 3

RegisterNames == {"alice", "bob", "carol", " alice ", " "}

RegisterPasswords == {"pass1", "pass2", "abc"}

InitRegister ==
    /\ InitFiles
    /\ InitWalletIdle
    /\ ports = <<>>
    /\ rates = EmptyPairs

RegisterAnyone ==
    \E u \in RegisterNames, p \in RegisterPasswords :
        /\ RegisterCheck(users, u, p) = NoExc => Len(users) < MaxUsers
        /\ RegisterAs(u, p)

NextRegister == RegisterAnyone

SpecRegister == InitRegister /\ [][NextRegister]_vars

(***************************************************************************)
(* The two clients (api_clients.py).  A market gives, for every code, the  *)
(* price of one unit in USD.  CoinGecko answers with that price per coin;  *)
(* ExchangeRate-API, asked for base USD, answers for every code with the   *)
(* amount of that code that one USD buys.                                  *)
(***************************************************************************)
CryptoCodes == {"BTC", "ETH"}

FiatCodes == {"EUR", "GBP"}

Prices == {Rat(1, 2), Rat(2, 1), Rat(4, 1)}

Markets == [CryptoCodes \cup FiatCodes -> Prices]

\* {"bitcoin": {"usd": price}, ...} for the coins the answer lists
CoinGeckoAnswer(m, listed) == [c \in listed |-> m[c]]

\* {"result": "success", "conversion_rates": {"EUR": amount of EUR per USD, ...}}
ExchangeRateAnswer(m, listed) == [c \in listed |-> Rat(m[c][2], m[c][1])]

FetchFailed == [kind |-> "ApiRequestError"]

FetchOk(data) == [kind |-> "ok", data |-> data]

\* CoinGeckoClient.fetch_rates on the answer of the provider
CoinGeckoFetch(answered, answer) ==
    IF ~answered THEN FetchFailed
    ELSE FetchOk([k \in {Key(c, "USD") : c \in DOMAIN answer \cap CryptoCodes} |-> answer[k[1]]])

\* ExchangeRateApiClient.fetch_rates on the answer of the provider
ExchangeRateFetch(api_key, answered, answer) ==
    IF ~api_key \/ ~answered THEN FetchFailed
    ELSE IF DOMAIN answer \cap FiatCodes = {} THEN FetchFailed
    ELSE FetchOk([k \in {Key(c, "USD") : c \in DOMAIN answer \cap FiatCodes} |-> answer[k[1]]])

CoinGeckoCall ==
    \E m \in Markets, listed \in SUBSET CryptoCodes, answered \in BOOLEAN :
        /\ rq' = [op |-> "fetch", client |-> "coingecko", market |-> m,
                  res |-> CoinGeckoFetch(answered, CoinGeckoAnswer(m, listed))]
        /\ UNCHANGED resolveFrame

ExchangeRateCall ==
    \E m \in Markets, listed \in SUBSET FiatCodes, api_key \in BOOLEAN, answered \in BOOLEAN :
        /\ rq' = [op |-> "fetch", client |-> "exchangerate", market |-> m,
                  res |-> ExchangeRateFetch(api_key, answered, ExchangeRateAnswer(m, listed))]
        /\ UNCHANGED resolveFrame

NextClients == CoinGeckoCall \/ ExchangeRateCall

SpecClients == InitAgg /\ [][NextClients]_vars

(***************************************************************************)
(* run_scheduler(interval, source, iterations) in its thread, one source,  *)
(* with a storage that can fail.  sched.pc is "test" at the loop           *)
(* condition, "sleep" in time.sleep, "done" after the loop, "dead" when an *)
(* exception left the loop.  A stop request stands for the shutdown of the *)
(* process (the main thread returning from the CLI).                       *)
(***************************************************************************)
\* iterations = None
NoLimit == -1

OSError == [exc |-> "OSError"]

StorageFaults == {"none", "snapshot", "history"}

\* what the one source of the scheduler can answer
SchedResults ==
    { <<[kind |-> "ApiRequestError"]>>,
      <<[kind |-> "ok", data |-> Key("BTC", "USD") :> One]>>,
      <<[kind |-> "ok", data |-> (Key("BTC", "USD") :> Zero) @@ (Key("EUR", "USD") :> Rat(2, 1))]>> }

\* write_rates_snapshot(latest) inside try / except Exception: log; raise.
\* fault "snapshot": open(snap_path, "w") raises; fault "history":
\* append_history raises after the snapshot was written
Persist(fault) ==
    IF fault = "snapshot" THEN [exc |-> OSError, snapshot |-> FALSE, history |-> FALSE]
    ELSE IF fault = "history" THEN [exc |-> OSError, snapshot |-> TRUE, history |-> FALSE]
    ELSE [exc |-> NoExc, snapshot |-> TRUE, history |-> TRUE]

\* run_update as a whole: what it raises and which files it wrote
RunOutcome(res, fault) ==
    IF ~res.written THEN [exc |-> res.exc, snapshot |-> FALSE, history |-> FALSE]
    ELSE Persist(fault)

\* mutant: an exception of run_update leaves the loop
AfterRun_raise(exc) == IF exc = NoExc THEN "sleep" ELSE "dead"

\* try: run_update() except Exception: log; then time.sleep
AfterRun(exc) == "sleep"

\* while iterations is None or i < iterations
MayLoop(sc) == sc.n = NoLimit \/ sc.i < sc.n

InitSched ==
    /\ users = <<>> /\ ports = <<>> /\ session = NoSession /\ last = [op |-> "init"]
    /\ ntrades = 0 /\ portsTorn = FALSE /\ wr = NoWrite
    /\ InitWalletIdle
    /\ rates \in AggRateFiles
    /\ refresh = NoRefresh
    /\ history = <<>>
    /\ clock = 1
    /\ alast = [op |-> "init"]
    /\ nruns = 0
    /\ ratesTorn = FALSE
    /\ aw = NoWrite
    /\ rq = [op |-> "init"]
    /\ runners = NoRunners
    /\ env = DefaultEnv
    /\ \E n \in {NoLimit} \cup 0..MaxRuns :
           sched = [pc |-> "test", n |-> n, i |-> 0, started |-> 0, stop |-> FALSE, log |-> <<>>]

schedFrame == <<users, ports, session, last, ntrades, portsTorn, wr, walletVars,
                aw, rq, runners, env>>

SchedRun ==
    \E results \in SchedResults, fault \in StorageFaults :
        LET res == RunUpdateResult(rates, ratesTorn, results, clock)
            out == RunOutcome(res, fault)
        IN      /\ sched.pc = "test"
                /\ MayLoop(sched)
                /\ sched.started < MaxRuns
                /\ rates' = IF out.snapshot THEN res.pairs ELSE rates
                /\ refresh' = IF out.snapshot THEN res.refresh ELSE refresh
                /\ ratesTorn' = IF out.snapshot THEN FALSE ELSE ratesTorn
                /\ history' = IF out.history THEN AppendHistory(history, res.pairs, res.refresh)
                              ELSE history
                /\ clock' = clock + 1
                /\ alast' = [op |-> "run_update", results |-> results, res |-> res,
                             fault |-> fault, out |-> out, now |-> clock,
                             pre |-> [rates |-> rates, refresh |-> refresh, history |-> history]]
                /\ sched' = [sched EXCEPT !.pc = AfterRun(out.exc), !.started = @ + 1,
                                          !.log = Append(@, out.exc = NoExc)]
                /\ UNCHANGED <<nruns, schedFrame>>

\* time.sleep(int(interval)); i += 1
SchedSleep ==
    /\ sched.pc = "sleep"
    /\ sched' = [sched EXCEPT !.pc = "test", !.i = @ + 1]
    /\ UNCHANGED <<rates, refresh, ratesTorn, history, clock, alast, nruns, schedFrame>>

\* the loop condition is false: run_scheduler returns
SchedExit ==
    /\ sched.pc = "test"
    /\ ~MayLoop(sched)
    /\ sched' = [sched EXCEPT !.pc = "done"]
    /\ UNCHANGED <<rates, refresh, ratesTorn, history, clock, alast, nruns, schedFrame>>

\* the process is asked to shut down
StopRequest ==
    /\ ~sched.stop
    /\ sched' = [sched EXCEPT !.stop = TRUE]
    /\ UNCHANGED <<rates, refresh, ratesTorn, history, clock, alast, nruns, schedFrame>>

SchedStep == SchedRun \/ SchedSleep \/ SchedExit

NextSched == SchedStep \/ StopRequest

SpecSched == InitSched /\ [][NextSched]_vars

\* the thread of run_scheduler is scheduled, time.sleep returns and every
\* fetch ends by its timeout, so a step of the loop that can be taken is taken
SpecSchedFair == SpecSched /\ WF_vars(SchedStep)

(***************************************************************************)
(* Two people at one installation: register, login, buy and sell in any    *)
(* order, from empty data files.                                           *)
(***************************************************************************)
SessionNames == {"alice", "bob", " "}

SessionPasswords == {"pass1", "pass2", ""}

SessionCodes == {"BTC", "USD", "XXX"}

SessionAmounts == {One, NaN}

InitSession ==
    /\ InitFiles
    /\ InitWalletIdle
    /\ ports = <<>>
    /\ rates \in RateFiles

RegisterSomeone ==
    \E u \in SessionNames, p \in SessionPasswords :
        /\ RegisterCheck(users, u, p) = NoExc => Len(users) < MaxUsers
        /\ RegisterAs(u, p)

LoginSomeone == \E u \in SessionNames, p \in SessionPasswords : LoginAs(u, p)

BuySome == \E c \in SessionCodes, a \in SessionAmounts : Trade("buy", c, a)

SellSome == \E c \in SessionCodes, a \in SessionAmounts : Trade("sell", c, a)

NextSession == RegisterSomeone \/ LoginSomeone \/ BuySome \/ SellSome

SpecSession == InitSession /\ [][NextSession]_vars

(***************************************************************************)
(* Trades and the age of the snapshot (SpecAge): buy and sell are run on   *)
(* the rates file as it is and, for comparison, on the same file with      *)
(* last_refresh, last_refresh_epoch and every updated_at set to another    *)
(* time.                                                                   *)
(***************************************************************************)
\* mutant: a trade sees the pairs of a fresh snapshot only
TradeRates_freshOnly(snap) ==
    IF RatesAreFresh(SnapshotMeta(snap.refresh), env.ttl, clock, env.tz)
    THEN snap.rates ELSE EmptyPairs

\* what buy and sell take from rates.json: _get_rate_pair reads it with
\* _load_rates_full, which keeps the pair entries and leaves the refresh
\* keys out; _rates_are_fresh is not called
TradeRates(snap) == snap.rates

\* the same pairs at the same rates, written at time t
Aged(snap, t) ==
    Snapshot([k \in DOMAIN snap.rates |-> [rate |-> snap.rates[k].rate, updated_at |-> Iso(t)]],
             [source |-> "ParserService", last_refresh |-> Iso(t), last_refresh_epoch |-> t])

AgeStamps == {Now - 10, Now - 1000}

\* refresh keys of the file the trade runs on: none, fresh, stale
AgeMetas ==
    {NoRefresh}
        \cup {[source |-> "ParserService", last_refresh |-> Iso(v), last_refresh_epoch |-> v] :
                v \in {Now - 10, Now - 301}}

AgeCodes == {"BTC", "USD", "XXX"}
AgeAmounts == {One, NaN}

\* buy(c, a) or sell(c, a) with rates.json holding snap
TradeOn(op, snap, c, a) ==
    IF op = "buy" THEN BuyResult(session, portsTorn, ports, TradeRates(snap), c, a)
    ELSE SellResult(session, portsTorn, ports, TradeRates(snap), c, a)

InitAge ==
    /\ users = <<NewUser(<<>>, "alice", "pass1")>>
    /\ session \in {NoSession, Alice}
    /\ last = [op |-> "init"]
    /\ ntrades = 0 /\ portsTorn = FALSE /\ wr = NoWrite
    /\ InitWalletIdle
    /\ ports \in PortfolioFiles
    /\ rates \in RateFiles
    /\ refresh \in AgeMetas
    /\ history = <<>>
    /\ clock = Now
    /\ alast = [op |-> "init"]
    /\ nruns = 0
    /\ ratesTorn = FALSE
    /\ aw = NoWrite
    /\ rq = [op |-> "init"]
    /\ runners = NoRunners
    /\ sched = NoScheduler
    /\ env = DefaultEnv

\* the trade is executed on the file as it is; rq keeps what the same call
\* returns on the file written at time t
TradeAged(op, c, a, t) ==
    LET snap == Snapshot(rates, refresh)
        res == TradeOn(op, snap, c, a)
    IN  /\ res.saved => ntrades < MaxTrades
        /\ ports' = IF res.saved THEN SaveUserPortfolio(ports, res.uid, res.wallets) ELSE ports
        /\ ntrades' = IF res.saved THEN ntrades + 1 ELSE ntrades
        /\ last' = [op |-> op, currency |-> c, amount |-> a, res |-> res, pre |-> ports,
                    session |-> session]
        /\ rq' = [op |-> "aged", snap |-> snap, other |-> Aged(snap, t),
                  res |-> TradeOn(op, Aged(snap, t), c, a)]
        /\ UNCHANGED <<users, session, rates, portsTorn, wr, walletVars,
                       refresh, history, clock, alast, nruns, ratesTorn, aw, procVars>>

BuyAged == \E c \in AgeCodes, a \in AgeAmounts, t \in AgeStamps : TradeAged("buy", c, a, t)

SellAged == \E c \in AgeCodes, a \in AgeAmounts, t \in AgeStamps : TradeAged("sell", c, a, t)

NextAge == BuyAged \/ SellAged

SpecAge == InitAge /\ [][NextAge]_vars

(***************************************************************************)
(* Properties of overlapping runs (SpecAggPar)                             *)
(***************************************************************************)
\* the threads that have begun a run and not yet written snapshot and history
InRun == {p \in Runners : runners[p].pc # "idle"}

\* C21: aggregation runs are serialized: no run begins while another run
\* has started and not yet finished writing the snapshot and the history.
C21_RunsSerialized == Cardinality(InRun) <= 1

(***************************************************************************)
(* Order of the steps of a trade (Spec)                                    *)
(***************************************************************************)
\* the trade was validated and _get_rate_pair(code, "USD") has no rate to give
NoRateForTrade == Reached /\ GetRatePair(NormCode(last.currency), "USD", rates).exc # NoExc

RateError == ValueError("no_rate_to_usd")

\* C28 as stated: for buy and for sell the rate is resolved before the funds
\* check, so a trade without a rate fails with the rate error whatever the
\* balances are.
C28_RateBeforeFunds == NoRateForTrade => last.res.exc = RateError

\* C28, amended: buy goes Validated, RateResolved, FundsChecked, Applied,
\* Persisted; sell goes Validated, FundsChecked, RateResolved, Applied,
\* Persisted.  A buy without a rate fails with the rate error whatever the
\* balances are; a sell without a rate fails with InsufficientFunds when the
\* balance is short and with the rate error otherwise; the portfolio is
\* persisted only after validation, rate and funds check all passed.
C28_TradeOrder ==
    Reached =>
        LET code == NormCode(last.currency)
            rp == GetRatePair(code, "USD", rates)
            usd == Bal(Before, "USD")
            bal == Bal(Before, code)
        IN  /\ (last.op = "buy" /\ rp.exc # NoExc) => last.res.exc = RateError
            /\ (last.op = "sell" /\ RLt(bal, last.amount)) =>
                   last.res.exc = InsufficientFundsError(bal, last.amount, code)
            /\ (last.op = "sell" /\ rp.exc # NoExc /\ ~RLt(bal, last.amount)) =>
                   last.res.exc = RateError
            /\ last.res.saved =>
                   /\ rp.exc = NoExc
                   /\ last.op = "buy" => ~RLt(usd, RMul(last.amount, rp.rate))
                   /\ last.op = "sell" => ~RLt(bal, last.amount)

\* a sell of a currency that has no rate and that the user does not hold
\* fails in the funds check
C28_Witness ==
    /\ last.op = "sell" /\ NoRateForTrade
    /\ RLt(Bal(Before, NormCode(last.currency)), last.amount)
    /\ last.res.exc.exc = "InsufficientFundsError"
    /\ ports = last.pre

\* a buy without a rate fails with the rate error although USD would not suffice
C28_WitnessBuy ==
    /\ last.op = "buy" /\ NoRateForTrade
    /\ Bal(Before, "USD") = Zero
    /\ last.res.exc = RateError

(***************************************************************************)
(* Properties of the freshness check and of get_rate (SpecFresh)           *)
(***************************************************************************)
\* the second a snapshot was refreshed at: its refresh epoch when that is a
\* non-zero number, otherwise the second its ISO timestamp names
RefreshedAt(snap) ==
    IF snap.epoch.k = "int" /\ snap.epoch.v # 0 THEN [ok |-> TRUE, v |-> snap.epoch.v]
    ELSE IF snap.iso.k = "iso" THEN [ok |-> TRUE, v |-> snap.iso.v]
    ELSE [ok |-> FALSE, v |-> 0]

ShouldBeFresh(snap, ttl, now) == RefreshedAt(snap).ok /\ now - RefreshedAt(snap).v <= ttl

\* C22: isFresh(snapshot, ttl) is true exactly when now - t <= ttl, t being
\* the refresh epoch if present and non-zero, otherwise the parsed ISO
\* timestamp; false when neither is usable.
C22_IsFresh ==
    rq.op = "fresh" =>
        /\ rq.usecases = ShouldBeFresh(rq.snap, rq.ttl, rq.now)
        /\ rq.utils = ShouldBeFresh(rq.snap, rq.ttl, rq.now)

\* the part of C22 that the code satisfies: with a positive refresh epoch
\* both functions compare now - epoch with the TTL
C22_FreshByEpoch ==
    (rq.op = "fresh" /\ rq.snap.epoch.k = "int" /\ rq.snap.epoch.v > 0) =>
        /\ rq.usecases = (rq.now - rq.snap.epoch.v <= rq.ttl)
        /\ rq.utils = (rq.now - rq.snap.epoch.v <= rq.ttl)

IsGetRate == rq.op = "get_rate" /\ rq.frm \in Registry /\ rq.to \in Registry

SnapshotUnusable ==
    \/ EmptySnapshot(rq.pre.rates, rq.pre.refresh)
    \/ ~ShouldBeFresh(SnapshotMeta(rq.pre.refresh), env.ttl, clock)

HasPair ==
    \/ rq.frm = rq.to
    \/ Key(rq.frm, rq.to) \in DOMAIN rq.pre.rates
    \/ Key(rq.to, rq.frm) \in DOMAIN rq.pre.rates /\ rq.pre.rates[Key(rq.to, rq.frm)].rate # Zero

\* C23: get_rate for two known currencies fails with the stale-cache error
\* whenever the snapshot is missing, empty or older than the TTL, even if the
\* pair is present; a fresh snapshot without the pair gives the distinct
\* rate-unavailable error; get_rate never modifies the cache.
C23_StaleCache ==
    IsGetRate =>
        /\ SnapshotUnusable => rq.res.exc = ApiRequestError("stale")
        /\ (~SnapshotUnusable /\ ~HasPair) => rq.res.exc.exc = "ValueError"
        /\ rates = rq.pre.rates /\ refresh = rq.pre.refresh

\* the part of C23 that the code satisfies: the same for snapshots that
\* carry a positive refresh epoch, or no refresh keys at all
C23_StaleCacheByEpoch ==
    (IsGetRate /\ (rq.pre.refresh.last_refresh_epoch > 0 \/ rq.pre.refresh.source = "")) =>
        /\ SnapshotUnusable => rq.res.exc = ApiRequestError("stale")
        /\ (~SnapshotUnusable /\ ~HasPair) => rq.res.exc.exc = "ValueError"
        /\ (~SnapshotUnusable /\ HasPair) => rq.res.exc = NoExc
        /\ rates = rq.pre.rates /\ refresh = rq.pre.refresh

(***************************************************************************)
(* Properties of the portfolio valuation (SpecValue)                       *)
(***************************************************************************)
IsValuation ==
    /\ rq.op = "value" /\ rq.sess # NoSession /\ DOMAIN rq.wallets # {}
    /\ rq.base \notin {"", NoBase}

\* the rate of one unit of code in the base, when the snapshot has a path
HasPath(code, base, flat) ==
    \/ code = base
    \/ Key(code, base) \in DOMAIN flat
    \/ Key(base, code) \in DOMAIN flat /\ flat[Key(base, code)] # Zero

PathRate(code, base, flat) ==
    IF code = base THEN One
    ELSE IF Key(code, base) \in DOMAIN flat THEN flat[Key(code, base)]
    ELSE Rat(flat[Key(base, code)][2], flat[Key(base, code)][1])

RECURSIVE TotalIn(_, _, _, _)
TotalIn(codes, wallets, base, flat) ==
    IF codes = {} THEN Zero
    ELSE LET c == CHOOSE x \in codes : TRUE
         IN  RAdd(RMul(wallets[c], PathRate(c, base, flat)),
                  TotalIn(codes \ {c}, wallets, base, flat))

\* C25: the valuation returns the sum over all wallets of balance * rate to
\* the base; when a held currency, even with a zero balance, has neither a
\* direct nor a non-zero inverse rate it fails with the no-rate error
\* (ValueError) and returns no total; a wallet in the base needs no rate.
C25_Valuation ==
    IsValuation =>
        LET flat == LoadRatesMap(rq.pre)
            unrated == {c \in DOMAIN rq.wallets : ~HasPath(c, rq.base, flat)}
        IN  /\ unrated # {} => /\ rq.res.exc.exc = "ValueError"
                               /\ ~rq.res.returned
            /\ unrated = {} => /\ rq.res.exc = NoExc
                               /\ rq.res.returned
                               /\ rq.res.total = TotalIn(DOMAIN rq.wallets, rq.wallets, rq.base, flat)

\* a wallet with a zero balance and no rate makes show_portfolio fail, while
\* another wallet of the portfolio has a rate
C25_Witness ==
    /\ IsValuation /\ rq.fn = "show_portfolio" /\ rq.base = "USD"
    /\ DOMAIN rq.wallets = {"BTC", "EUR"} /\ rq.wallets["EUR"] = Zero
    /\ Key("BTC", "USD") \in DOMAIN rq.pre
    /\ rq.res.exc.exc = "ValueError" /\ ~rq.res.returned

\* a total over three wallets, the base among them, with an inverted rate
C25_WitnessTotal ==
    /\ IsValuation /\ rq.fn = "show_portfolio" /\ rq.base = "USD"
    /\ DOMAIN rq.wallets = {"BTC", "EUR", "USD"}
    /\ rq.res = Valued(Rat(12, 1))

(***************************************************************************)
(* Properties of register (SpecRegister)                                   *)
(***************************************************************************)
NameTaken == \E i \in 1..Len(last.users) : last.users[i].username = StripName(last.username)

\* C27: no two records of the users file share a username or a user_id; a
\* register with a taken username fails and changes neither file; a
\* successful register adds exactly one user and exactly one portfolio
\* entry, for the new id, with no wallets.
C27_RegisterUnique ==
    /\ \A i, j \in 1..Len(users) :
           i # j => /\ users[i].username # users[j].username
                    /\ users[i].user_id # users[j].user_id
    /\ last.op = "register" =>
           /\ NameTaken => /\ last.res.exc # NoExc
                            /\ users = last.users
                            /\ ports = last.pre
           /\ last.res.exc = NoExc =>
                  /\ Len(users) = Len(last.users) + 1
                  /\ SubSeq(users, 1, Len(last.users)) = last.users
                  /\ users[Len(users)].username = StripName(last.username)
                  /\ \A i \in 1..Len(last.pre) : last.pre[i].user_id # users[Len(users)].user_id
                  /\ ports = Append(last.pre, Entry(users[Len(users)].user_id, EmptyWallets))

\* a third register, under a name that is taken once stripped, is refused
C27_Witness ==
    /\ last.op = "register" /\ last.username = " alice "
    /\ Len(last.users) = 2 /\ NameTaken
    /\ last.res.exc = ValueError("username_taken")
    /\ Len(users) = 2 /\ Len(ports) = 2

(***************************************************************************)
(* Properties of the clients (SpecClients)                                 *)
(***************************************************************************)
\* C29: the rate a source stores under the key C_B is the amount of B that
\* equals one unit of C: the price of one C in USD, so that buy(C, n) costs
\* n times that price.
C29_RateDirection ==
    (rq.op = "fetch" /\ rq.res.kind = "ok") =>
        \A k \in DOMAIN rq.res.data : k[2] = "USD" /\ rq.res.data[k] = rq.market[k[1]]

\* the part of C29 that the code satisfies: the keys of CoinGeckoClient
C29_CoinGeckoDirection ==
    (rq.op = "fetch" /\ rq.client = "coingecko" /\ rq.res.kind = "ok") =>
        \A k \in DOMAIN rq.res.data : k[2] = "USD" /\ rq.res.data[k] = rq.market[k[1]]

(***************************************************************************)
(* Properties of the scheduler loop (SpecSched, SpecSchedFair)             *)
(***************************************************************************)
\* C24: once a stop request is made the loop starts no further run and
\* eventually terminates.
C24_CooperativeStop == [][sched.stop => sched'.started = sched.started]_vars

\* C26: when append_history fails in a run whose snapshot write succeeded,
\* run_update still returns the merged snapshot and the run is not reported
\* as failed; only a failure of the snapshot write is propagated.
C26_HistoryFailureTolerated ==
    (alast.op = "run_update" /\ alast.res.written) =>
        /\ alast.fault = "history" => (alast.out.exc = NoExc /\ rates = alast.res.pairs)
        /\ alast.fault = "snapshot" => alast.out.exc # NoExc

\* the part of C26 that the code satisfies: a failure of the snapshot write
\* is propagated and leaves both files as they were
C26_SnapshotFailurePropagated ==
    (alast.op = "run_update" /\ alast.res.written /\ alast.fault = "snapshot") =>
        /\ alast.out.exc # NoExc
        /\ rates = alast.pre.rates /\ history = alast.pre.history

\* C30: run_scheduler with iterations = n starts exactly n runs, one after
\* the other, and then terminates; a run that fails never stops the loop.
C30_Iterations ==
    /\ [](sched.n # NoLimit =>
             /\ sched.started <= sched.n
             /\ sched.pc # "dead"
             /\ sched.pc = "done" => (sched.started = sched.n /\ Len(sched.log) = sched.n))
    /\ (sched.n # NoLimit => <>(sched.pc = "done"))

\* two iterations are over: the first run failed, the second one succeeded
\* and wrote the snapshot and the history
C30_Witness ==
    /\ sched.n = 2 /\ sched.pc = "done" /\ sched.started = 2
    /\ sched.log = <<FALSE, TRUE>>
    /\ Len(history) = 1

(***************************************************************************)
(* Properties of the session (SpecSession)                                 *)
(***************************************************************************)
\* the record of the users file whose name and password are those of the call
Verified(uf, u, p) ==
    {i \in 1..Len(uf) : /\ uf[i].username = StripName(u)
                        /\ uf[i].hashed_password = HashPassword(p, uf[i].salt)}

\* C31: there is one session record; a successful login replaces it with
\* the user whose password was verified; a failed login leaves it
\* unchanged; register never creates or changes it; buy and sell without a
\* session fail.
C31_SingleSession ==
    /\ last.op = "login" =>
           /\ last.res.exc = NoExc =>
                  \E i \in Verified(users, last.username, last.password) :
                      session = [user_id |-> users[i].user_id, username |-> users[i].username]
           /\ last.res.exc # NoExc => session = last.session
           /\ (last.res.exc = NoExc) <=>
                  (last.password # "" /\ Verified(users, last.username, last.password) # {})
    /\ last.op = "register" => session = last.session
    /\ IsTrade => /\ session = last.session
                  /\ last.session = NoSession =>
                         (last.res.exc = ValueError("login_first") /\ ports = last.pre)

\* bob gives a wrong password while alice is logged in: alice stays
C31_Witness ==
    /\ last.op = "login" /\ last.username = "bob"
    /\ last.res.exc = ValueError("wrong_password")
    /\ last.session.username = "alice" /\ session = last.session

\* bob logs in while alice is logged in: the session is bob's
C31_WitnessReplaced ==
    /\ last.op = "login" /\ last.res.exc = NoExc
    /\ last.session.username = "alice" /\ session.username = "bob"
    /\ session.user_id # last.session.user_id

\* C32: show_portfolio without a base, by a logged-in user who holds a
\* wallet, values the portfolio in the default base and returns the
\* listing: the same result as with the default base passed explicitly.
C32_DefaultBase ==
    (rq.op = "value" /\ rq.fn = "show_portfolio" /\ rq.base = NoBase
        /\ rq.sess # NoSession /\ DOMAIN rq.wallets # {}) =>
        /\ rq.res = ShowPortfolio(rq.sess, rq.wallets, DefaultBase, LoadRatesMap(rq.pre))
        /\ rq.res.exc.exc # "ValueError" \/ rq.res.exc.msg # "unknown_base"

\* the part of C32 that the code satisfies: without wallets the call without
\* a base returns the same text as with the default base
C32_DefaultBaseNoWallets ==
    (rq.op = "value" /\ rq.fn = "show_portfolio" /\ rq.base = NoBase
        /\ rq.sess # NoSession /\ DOMAIN rq.wallets = {}) =>
        rq.res = NoWallets

\* C33: from empty data files, whatever the rate snapshot, every buy and
\* every sell fails and every user's portfolio stays empty.
C33_NoTradeFromEmpty ==
    /\ IsTrade => (last.res.exc # NoExc /\ ~last.res.saved)
    /\ \A i \in 1..Len(ports) : DOMAIN ports[i].wallets = {}

\* the part of C33 that the code satisfies: a trade of a finite amount from
\* empty files fails, whatever the cached rate
C33_NoFiniteTradeFromEmpty ==
    (IsTrade /\ last.amount # NaN /\ last.session # NoSession
        /\ \A i \in 1..Len(last.pre) : DOMAIN last.pre[i].wallets = {}) =>
        (last.res.exc # NoExc /\ ~last.res.saved)

\* C34: a buy or sell under the session of user U changes only U's entry of
\* the portfolio file: the entries of the other users keep their place and
\* their wallets, an entry is added only for U, and the users file, the
\* session file, the rate snapshot and the history are not written.
C34_TradeFrame ==
    [][last'.op \in {"buy", "sell"} =>
        /\ Len(ports') >= Len(ports)
        /\ \A i \in 1..Len(ports) :
              /\ ports'[i].user_id = ports[i].user_id
              /\ ports[i].user_id # session.user_id => ports'[i] = ports[i]
        /\ \A i \in (Len(ports) + 1)..Len(ports') :
              ports'[i].user_id = session.user_id
        /\ ports' # ports => session # NoSession
        /\ users' = users /\ session' = session
        /\ rates' = rates /\ refresh' = refresh /\ history' = history]_vars

\* a trade was saved while another user held wallets in the file
C34_Witness ==
    /\ IsTrade /\ last.res.saved /\ ports # last.pre
    /\ \E i \in 1..Len(last.pre) :
          /\ last.pre[i].user_id # last.session.user_id
          /\ DOMAIN last.pre[i].wallets # {}
          /\ ports[i] = last.pre[i]

\* the pairs run r read from the previous snapshot and the pairs it fetched
RunKeys(r) == DOMAIN r.prev \cup DOMAIN r.res.new_flat

\* thread p finishes its run in this step, after thread q, which began later,
\* has finished a run that wrote: the two runs overlapped and both are over
BothFinished(p, q) ==
    /\ runners[p].pc = "hist" /\ runners'[p].pc = "idle"
    /\ runners[q].pc = "idle"
    /\ alast.op = "run_update" /\ alast.runner = q /\ alast.res.written
    /\ alast.now > runners[p].now

\* C35: when two aggregation runs overlap, the snapshot on disk after both
\* have finished holds every pair cached before them and every pair fetched
\* by either run.
C35_NoPairLost ==
    [][\A p, q \in Runners :
          BothFinished(p, q) =>
              RunKeys(runners[p]) \cup RunKeys(alast) \subseteq DOMAIN rates']_vars

\* the part of C35 that the code satisfies: the pairs cached before the runs
\* are never lost, only pairs fetched by one of the runs
C35_CachedPairsKept ==
    [][\A p, q \in Runners :
          BothFinished(p, q) =>
              DOMAIN runners[p].prev \cup DOMAIN alast.prev \subseteq DOMAIN rates']_vars

\* some run has written the snapshot
SnapshotWritten == refresh.source = "ParserService"

\* the last history record is the record of the current snapshot
HistoryMatches ==
    /\ Len(history) > 0
    /\ history[Len(history)].pairs = rates
    /\ history[Len(history)].ts = refresh.last_refresh

\* C36: whenever no run is in progress and some run has written the snapshot,
\* the last history record holds the pairs of the snapshot and its
\* last_refresh, also after runs in which a storage step failed.
C36_HistoryMatchesSnapshot ==
    (InRun = {} /\ ~aw.active /\ SnapshotWritten) => HistoryMatches

\* the part of C36 that the code satisfies: after a run whose storage steps
\* all succeeded the last history record matches the snapshot
C36_HistoryMatchesWithoutFault ==
    (alast.op = "run_update" /\ alast.res.written /\ alast.fault = "none") =>
        HistoryMatches

\* the refresh keys of the file say it is fresh, as get_rate reads them
FreshSnapshot(snap) ==
    RatesAreFresh(SnapshotMeta(snap.refresh), env.ttl, clock, env.tz)

\* C37: the outcome of buy and sell (success or failure, rate used,
\* resulting balances) depends on the pair rates of the snapshot and not on
\* its freshness: the same trade from the same portfolio on a snapshot that
\* differs in last_refresh, last_refresh_epoch and updated_at alone gives the
\* same result.
C37_TradeIgnoresAge ==
    rq.op = "aged" =>
        /\ LoadRatesMap(rq.other.rates) = LoadRatesMap(rq.snap.rates)
        /\ rq.res = last.res

\* a trade was executed on a fresh snapshot, and the stale one gives the same
C37_Witness ==
    /\ rq.op = "aged" /\ last.res.saved
    /\ FreshSnapshot(rq.snap) /\ ~FreshSnapshot(rq.other)

\* a trade was executed at a rate cached in a stale snapshot
C37_WitnessStale ==
    /\ rq.op = "aged" /\ last.res.saved /\ last.res.rate = Rat(2, 1)
    /\ ~FreshSnapshot(rq.snap) /\ FreshSnapshot(rq.other)

\* C38: the two freshness implementations agree: for every snapshot, ttl and
\* current time, _rates_are_fresh of usecases and is_cache_fresh of utils
\* return the same boolean.
C38_FreshnessAgree == rq.op = "fresh" => rq.usecases = rq.utils

\* the part of C38 that the code satisfies: the two functions agree unless
\* the refresh epoch is a number that is zero or negative
C38_FreshnessAgreeOnEpoch ==
    (rq.op = "fresh" /\ (rq.snap.epoch.k = "int" => rq.snap.epoch.v > 0)) =>
        rq.usecases = rq.utils

\* two resolvers return the same rate or both fail
SameAnswer(a, b) ==
    /\ (a.exc = NoExc) = (b.exc = NoExc)
    /\ a.exc = NoExc => a.rate = b.rate

AllAgree ==
    /\ SameAnswer(rq.get_rate, rq.get_rate_pair)
    /\ SameAnswer(rq.get_rate_pair, rq.rate_from_flat)
    /\ SameAnswer(rq.rate_from_flat, rq.cli)

\* C39: the resolver copies agree: for every flat mapping and every pair of
\* non-empty codes of any length, _get_rate, _get_rate_pair, rate_from_flat
\* and _get_rate_from_flat all return the same rate or all fail.
C39_ResolversAgree ==
    (rq.op = "resolve_all" /\ NormCode(rq.frm0) # "" /\ NormCode(rq.to0) # "") => AllAgree

\* the part of C39 that the code satisfies: the four copies agree on codes of
\* two to five letters or digits
C39_ResolversAgreeOnCodes ==
    (rq.op = "resolve_all" /\ ~BadCodeFormat(NormCode(rq.frm0))
        /\ ~BadCodeFormat(NormCode(rq.to0))) => AllAgree

====
